---- MODULE Spec2Model ----
(***************************************************************************)
(* A state-machine model of database/scripts/generate_bulk_data.py: the    *)
(* BulkDataGenerator run (cleanup, seven generate-and-load phases), its     *)
(* identifier registries, its connection pool and the store it loads.       *)
(***************************************************************************)
EXTENDS Integers, Sequences, FiniteSets, TLC

----------------------------------------------------------------------------
(* Bounds of the explored configurations.                                  *)

MaxBatch == 2
MaxPool == 1
MaxUsers == 10
MaxCategories == 30
MaxDepth == 2
MaxChildren == 1
MaxProducts == 21
MidProducts == 11
MaxWorkers == 2
MaxOrders == 3
MaxAudit == 2
MaxQuery == 1
MaxSeed == 1
MaxTruncFail == 1
MinPrice == 0
MaxPrice == 6
MinQuantity == 1
MaxQuantity == 3
\* The precision of the decimal context (28 digits in Python), scaled down
\* together with the discount rates, which here have three decimals.
DecPrec == 4

----------------------------------------------------------------------------
(* Values and pure helpers.                                                *)

\* Python's None in an identifier column; generated identifiers are 1, 2, ...
Null == 0

NoError == [phase |-> "none", kind |-> "none"]

Min(a, b) == IF a <= b THEN a ELSE b

Max(a, b) == IF a >= b THEN a ELSE b

\* ceil(a / b) for a >= 0, b >= 1
CeilDiv(a, b) == (a + b - 1) \div b

RECURSIVE SumSeq(_)
SumSeq(s) == IF s = <<>> THEN 0 ELSE Head(s) + SumSeq(Tail(s))

SeqRange(s) == {s[k] : k \in 1..Len(s)}

NoDup(s) == \A a, b \in 1..Len(s) : s[a] = s[b] => a = b

Ids(rows) == [k \in 1..Len(rows) |-> rows[k].id]

\* The state of the random module advances with every draw; a draw picks
\* the element of the sequence the state selects.
NextRng(r) == (r * 3 + 1) % 17

RECURSIVE RngIter(_, _)
RngIter(r, n) == IF n = 0 THEN r ELSE RngIter(NextRng(r), n - 1)

Draw(s, r) == s[(r % Len(s)) + 1]

\* random.randint(a, b): one of a..b, both included.
RandInt(a, b, r) == a + (r % (b - a + 1))

----------------------------------------------------------------------------
(* Decimal: a non-negative value is kept as its number of thousandths; the *)
(* result of every operation is rounded to DecPrec significant digits,     *)
(* half to even.                                                           *)

RECURSIVE Digits(_)
Digits(n) == IF n < 10 THEN 1 ELSE 1 + Digits(n \div 10)

RECURSIVE Pow10(_)
Pow10(k) == IF k = 0 THEN 1 ELSE 10 * Pow10(k - 1)

DecRound(n) ==
    IF Digits(n) <= DecPrec THEN n
    ELSE LET u == Pow10(Digits(n) - DecPrec)
             q == n \div u
             r == n % u
         IN IF 2 * r > u \/ (2 * r = u /\ q % 2 = 1) THEN (q + 1) * u
            ELSE q * u

\* Decimal(random.uniform(0, 0.15)), in thousandths.
Rates == <<0, 37, 125, 150>>

\* discount_amount = unit_price * Decimal(rate) * quantity
DiscountAmount(unit_price, rate, quantity) ==
    DecRound(DecRound(unit_price * rate) * quantity)

\* A line total that leaves the discount out.
LineTotalNoDiscount(unit_price, quantity, discount_amount) ==
    DecRound(unit_price * quantity * 1000)

\* line_total = (unit_price * quantity) - discount_amount
LineTotal(unit_price, quantity, discount_amount) ==
    DecRound(DecRound(unit_price * quantity * 1000) - discount_amount)

\* The seven loaded tables and the list cleanup_data truncates.
Tables ==
    {"users", "categories", "products", "orders", "order_items",
     "audit_log", "query_history"}

\* A list that truncates the referenced tables first.
tables_to_cleanForward ==
    <<"users", "categories", "products", "daily_summary", "orders",
      "order_items", "audit_log", "query_history">>

tables_to_clean ==
    <<"query_history", "audit_log", "order_items", "orders",
      "daily_summary", "products", "categories", "users">>

\* run(): the order of the generate_* calls.
PhaseOrder ==
    <<"Users", "Categories", "Products", "Orders", "OrderItems",
      "AuditLog", "QueryHistory">>

PhaseIndex(p) == CHOOSE k \in 1..Len(PhaseOrder) : PhaseOrder[k] = p

\* An order of the calls in which the products are loaded after the orders.
NextPhaseSwapped(p) ==
    IF p = "Cleanup" THEN "Users"
    ELSE IF p = "Categories" THEN "Orders"
    ELSE IF p = "Orders" THEN "Products"
    ELSE IF p = "Products" THEN "OrderItems"
    ELSE IF PhaseIndex(p) < Len(PhaseOrder) THEN PhaseOrder[PhaseIndex(p) + 1]
    ELSE "Finish"

NextPhase(p) ==
    IF p = "Cleanup" THEN "Users"
    ELSE IF PhaseIndex(p) < Len(PhaseOrder) THEN PhaseOrder[PhaseIndex(p) + 1]
    ELSE "Finish"

PhaseTable(p) ==
    CASE p = "Users" -> "users"
      [] p = "Categories" -> "categories"
      [] p = "Products" -> "products"
      [] p = "Orders" -> "orders"
      [] p = "OrderItems" -> "order_items"
      [] p = "AuditLog" -> "audit_log"
      [] p = "QueryHistory" -> "query_history"
      [] OTHER -> "none"

----------------------------------------------------------------------------
(* Configuration (CONFIG and the run's cleanup argument). Ratios are in    *)
(* tenths.                                                                 *)

\* The totals and worker counts of a run, as <<users, categories, products,
\* parallel_workers, orders, audit_log>>: a run with every table loaded in
\* several chunks, the runs that differ from it in one entry, and the runs
\* that load nothing before the audit log. MidProducts is the least total
\* that makes two chunks.
Shapes ==
    LET U == MaxUsers
        C == MaxCategories
        P == MaxProducts
        W == MaxWorkers
        O == MaxOrders
        A == MaxAudit
    IN {<<U, C, P, W, O, A>>, <<0, C, P, W, O, A>>, <<U, 0, P, W, O, A>>,
        <<U, C, 0, 1, O, A>>, <<U, C, MidProducts, 1, O, A>>,
        <<U, C, MidProducts, W, O, A>>, <<U, C, P, W, 0, A>>,
        <<U, C, P, W, O, 0>>, <<0, 0, 0, 1, 0, A>>, <<0, 0, 0, 1, 0, 0>>}

\* CONFIG and the run's cleanup argument; the ratios are CONFIG's (admin
\* 0.1, member 0.3, guest 0.6).
Configs ==
    {[cleanup |-> cl,
      batch_size |-> b,
      connection_pool_size |-> MaxPool,
      parallel_workers |-> s[4],
      users_total |-> s[1],
      ratios |-> <<1, 3, 6>>,
      categories_total |-> s[2],
      max_depth |-> MaxDepth,
      children_per_parent |-> MaxChildren,
      products_total |-> s[3],
      orders_total |-> s[5],
      audit_total |-> s[6],
      query_total |-> MaxQuery,
      min_price |-> MinPrice,
      max_price |-> MaxPrice,
      min_quantity |-> MinQuantity,
      max_quantity |-> MaxQuantity] :
        cl \in BOOLEAN, b \in {1, MaxBatch}, s \in Shapes}

\* Counts that give ADMIN, not GUEST, the remainder.
VariantCountsAdminRest(c) ==
    LET member_count == (c.users_total * c.ratios[2]) \div 10
        guest_count == (c.users_total * c.ratios[3]) \div 10
    IN <<c.users_total - member_count - guest_count, member_count, guest_count>>

\* Counts that give GUEST its own floor instead of the remainder.
VariantCountsFloor(c) ==
    <<(c.users_total * c.ratios[1]) \div 10,
      (c.users_total * c.ratios[2]) \div 10,
      (c.users_total * c.ratios[3]) \div 10>>

\* generate_users: the per-variant counts, ADMIN, MEMBER, GUEST. int() of
\* the float product is the floor of the exact product for every ratio in
\* tenths and every total below 90 (from 90 on, 0.7 * total can fall one
\* short of it).
VariantCounts(c) ==
    LET admin_count == (c.users_total * c.ratios[1]) \div 10
        member_count == (c.users_total * c.ratios[2]) \div 10
    IN <<admin_count, member_count, c.users_total - admin_count - member_count>>

UserTypes == <<"ADMIN", "MEMBER", "GUEST">>

\* generate_categories: the number of root categories.
RootCount(total) == Min(50, total \div 10)

\* generate_categories: the number of children the current parent receives.
ChildrenCount(cpp, total, ins, nparents) ==
    Min(cpp, IF nparents > 0 THEN (total - ins) \div nparents ELSE 0)

\* A chunk size that leaves out the factor 10.
ChunkSizeNoFactor(total, batch_size, workers) ==
    Max(batch_size, total \div workers)

\* generate_products: the (start, end) index ranges handed to the workers.
ChunkSize(total, batch_size, workers) == Max(batch_size * 10, total \div workers)

\* Ranges whose last one is not cut at total.
ChunksPastTotal(total, batch_size, workers) ==
    LET cs == ChunkSize(total, batch_size, workers)
    IN [k \in 1..CeilDiv(total, cs) |-> <<(k - 1) * cs, k * cs>>]

Chunks(total, batch_size, workers) ==
    LET cs == ChunkSize(total, batch_size, workers)
    IN [k \in 1..CeilDiv(total, cs) |-> <<(k - 1) * cs, Min(k * cs, total)>>]

\* generate_orders: order_number, the day and the index plus one, which
\* the format writes with at least six digits.
OrderNumber(day, i) == <<day, i + 1>>

\* generate_orders: the head of user_ids orders draw their user from.
MemberUserIds(uids) ==
    SubSeq(uids, 1, CeilDiv(4 * Len(uids), 10))

----------------------------------------------------------------------------
(* The connection pool (SimpleConnectionPool(1, connection_pool_size)).    *)

NoPool == [state |-> "none", idle |-> 0, used |-> 0, maxconn |-> 0,
           closes |-> 0, exhausted |-> FALSE, gets |-> 0]

\* connect(): the pool opens minconn = 1 connection.
NewPool(maxconn) ==
    [state |-> "open", idle |-> 1, used |-> 0, maxconn |-> maxconn,
     closes |-> 0, exhausted |-> FALSE, gets |-> 0]

\* get_connection(): an idle connection, else a new one while fewer than
\* maxconn are checked out; otherwise (or once closed) the pool raises.
\* gets numbers the checkouts of the pool.
CanGet(p) == p.state = "open" /\ (p.idle > 0 \/ p.used < p.maxconn)

GetConn(p) ==
    IF ~CanGet(p) THEN [p EXCEPT !.exhausted = TRUE]
    ELSE IF p.idle > 0
         THEN [p EXCEPT !.idle = @ - 1, !.used = @ + 1, !.gets = @ + 1]
    ELSE [p EXCEPT !.used = @ + 1, !.gets = @ + 1]

\* A return that leaves the connection checked out.
PutConnLeaks(p) == p

\* return_connection(): kept idle while fewer than minconn = 1 are idle.
PutConn(p) ==
    [p EXCEPT !.used = @ - 1, !.idle = IF @ < 1 THEN @ + 1 ELSE @]

\* close(): closeall() when a pool exists.
CloseAll(p) ==
    IF p.state = "none" THEN p
    ELSE [p EXCEPT !.state = "closed", !.closes = @ + 1]

----------------------------------------------------------------------------
(* The store's transaction.                                                *)

\* conn.commit(): the rows of the open transaction become rows of the table.
CommitRows(st, t, rows) == [st EXCEPT ![t] = @ \o rows]

\* A handler that commits the open transaction where it should roll back.
RollbackCommits(st, t, rows) == [st EXCEPT ![t] = @ \o rows]

\* conn.rollback(): the rows of the open transaction are dropped, the table
\* keeps what was committed.
Rollback(st, t, rows) == st

----------------------------------------------------------------------------

VARIABLES
    cfg,           \* the configuration of the run
    phase,         \* run(): Idle, Cleanup, the seven phases, Finish, Done, Failed
    pc,            \* the position inside the current phase
    pool,          \* self.pool
    conn,          \* the caller holds a checked-out connection
    user_ids, category_ids, product_ids, product_info, order_ids,
    store,         \* committed rows of this run, per table, in commit order
    pending,       \* rows executed in the open transaction, not yet committed
    buffer,        \* the batch list being filled (admin_data, child_data, ...)
    inserted,      \* the phase's inserted counter
    loc,           \* the other local variables of the current function
    tasks,         \* the chunk tasks of the worker pool
    rng,           \* the state of the random module
    nextId,        \* the number of identifiers uuid4 has produced
    txlog,         \* every transaction attempted: table, identifiers, state
    generated,     \* the identifiers generated for each table, in order
    phaseLog,      \* the phases entered, in order
    error,         \* the failure that ended the run, if any
    lock,          \* self.lock is held
    today          \* the day datetime.now() is on, counted from the first

vars ==
    <<cfg, phase, pc, pool, conn, user_ids, category_ids, product_ids,
      product_info, order_ids, store, pending, buffer, inserted, loc, tasks,
      rng, nextId, txlog, generated, phaseLog, error, lock, today>>

registries == <<user_ids, category_ids, product_ids, product_info, order_ids>>

Init ==
    /\ cfg \in Configs
    /\ rng \in 0..MaxSeed
    /\ phase = "Idle"
    /\ pc = "begin"
    /\ pool = NoPool
    /\ conn = FALSE
    /\ user_ids = <<>>
    /\ category_ids = <<>>
    /\ product_ids = <<>>
    /\ product_info = <<>>
    /\ order_ids = <<>>
    /\ store = [t \in Tables |-> <<>>]
    /\ pending = <<>>
    /\ buffer = <<>>
    /\ inserted = 0
    /\ loc = [ret |-> "none"]
    /\ tasks = <<>>
    /\ nextId = 0
    /\ txlog = <<>>
    /\ generated = [t \in Tables |-> <<>>]
    /\ phaseLog = <<>>
    /\ error = NoError
    /\ lock = FALSE
    /\ today = 0

----------------------------------------------------------------------------
(* Python dict, as the sequence of its entries in insertion order.         *)

DictKeys(d) == [k \in 1..Len(d) |-> d[k].key]

DictPut(d, e) ==
    IF \E k \in 1..Len(d) : d[k].key = e.key
    THEN [k \in 1..Len(d) |-> IF d[k].key = e.key THEN e ELSE d[k]]
    ELSE Append(d, e)

\* A lookup that returns the first entry whatever the key.
DictGetFirst(d, key) == d[1]

\* d[key], for a key of d.
DictGet(d, key) == d[CHOOSE k \in 1..Len(d) : d[k].key = key]

RECURSIVE DictUpdate(_, _)
DictUpdate(d, u) ==
    IF u = <<>> THEN d ELSE DictUpdate(DictPut(d, Head(u)), Tail(u))

----------------------------------------------------------------------------
(* _generate_products_batch: the records of one chunk and their info.      *)

product_names == <<"Laptop", "Chair", "Charger">>

ProductRow(id, idx, cats, r) ==
    [id |-> id, idx |-> idx,
     sku |-> idx + 1,
     name |-> <<Draw(product_names, NextRng(r)), idx + 1>>,
     price |-> RandInt(cfg.min_price, cfg.max_price, NextRng(NextRng(r))),
     category |-> IF cats = <<>> THEN Null ELSE Draw(cats, r)]

GenerateProductsBatch(start_idx, end_idx, cats, r, id0) ==
    [k \in 1..(end_idx - start_idx) |->
        ProductRow(id0 + k, start_idx + k - 1, cats, RngIter(r, k - 1))]

ProductInfoOf(rows) ==
    [k \in 1..Len(rows) |->
        [key |-> rows[k].id, name |-> rows[k].name, sku |-> rows[k].sku,
         price |-> rows[k].price]]

\* A merge that loses the last record collected.
MergeLosesUpdate(pids, all_product_data) ==
    pids \o Ids(SubSeq(all_product_data, 1, Len(all_product_data) - 1))

\* generate_products: the merge of the collected records into product_ids.
MergeProductIds(pids, all_product_data) == pids \o Ids(all_product_data)

----------------------------------------------------------------------------
(* run(): connect, the end of the run.                                     *)

hist == <<txlog, generated>>

gen == <<rng, nextId>>

db == <<store, pending>>

\* connect() succeeded; cleanup_data is called only when cleanup is set.
RunStart ==
    /\ phase = "Idle"
    /\ pool' = NewPool(cfg.connection_pool_size)
    /\ phase' = IF cfg.cleanup THEN "Cleanup" ELSE "Users"
    /\ pc' = "begin"
    /\ UNCHANGED <<cfg, today, lock, conn, registries, db, buffer, inserted, loc, tasks,
                   gen, hist, phaseLog, error>>

\* connect() failed: sys.exit(1); run()'s finally finds no pool to close.
ConnectFails ==
    /\ phase = "Idle"
    /\ error' = [phase |-> "Idle", kind |-> "connect"]
    /\ pool' = CloseAll(pool)
    /\ phase' = "Failed"
    /\ pc' = "end"
    /\ UNCHANGED <<cfg, today, lock, conn, registries, db, buffer, inserted, loc, tasks,
                   gen, hist, phaseLog>>

\* All seven phases returned: the success report, then finally: close().
RunFinish ==
    /\ phase = "Finish"
    /\ pool' = CloseAll(pool)
    /\ phase' = "Done"
    /\ pc' = "end"
    /\ UNCHANGED <<cfg, today, lock, conn, registries, db, buffer, inserted, loc, tasks,
                   gen, hist, phaseLog, error>>

\* An except that swallows the failure and goes on to the next call.
RunExceptSwallows ==
    /\ pc = "run_except"
    /\ phase' = NextPhase(phase)
    /\ pc' = "begin"
    /\ UNCHANGED <<cfg, today, lock, pool, conn, registries, db, buffer, inserted, loc,
                   tasks, gen, hist, phaseLog, error>>

\* A phase raised: run()'s except re-raises, finally: close().
RunExcept ==
    /\ pc = "run_except"
    /\ pool' = CloseAll(pool)
    /\ phase' = "Failed"
    /\ pc' = "end"
    /\ UNCHANGED <<cfg, today, lock, conn, registries, db, buffer, inserted, loc, tasks,
                   gen, hist, phaseLog, error>>

----------------------------------------------------------------------------
(* The steps every loading function shares.                                *)

\* A threshold that lets the list grow one past batch_size.
BatchFullLate(data, batch_size) == Len(data) > batch_size

\* if len(data) >= batch_size: the list is flushed.
BatchFull(data, batch_size) == Len(data) >= batch_size

\* A flush after which the list is never emptied.
FlushNoReset(l, ret, add, reset) ==
    [l EXCEPT !.ret = ret, !.add = add, !.reset = FALSE]

\* The locals of a flush: where it returns to, whether the counter is
\* advanced by the batch, whether the list is emptied.
Flush(l, ret, add, reset) ==
    [l EXCEPT !.ret = ret, !.add = add, !.reset = reset]

\* The function is entered: conn = self.get_connection(), before its try;
\* its locals are set, no flush is under way.
PhaseEnter(p, first, locals) ==
    /\ phase = p
    /\ pc = "begin"
    /\ pool' = GetConn(pool)
    /\ phaseLog' = Append(phaseLog, p)
    /\ inserted' = 0
    /\ buffer' = <<>>
    /\ IF CanGet(pool)
       THEN /\ conn' = TRUE
            /\ pc' = first
            /\ loc' = Flush(locals, "none", FALSE, FALSE)
            /\ error' = error
       ELSE /\ conn' = conn
            /\ pc' = "run_except"
            /\ loc' = loc
            /\ error' = [phase |-> p, kind |-> "pool"]
    /\ UNCHANGED <<cfg, today, lock, phase, registries, db, tasks, gen, hist>>

\* execute_batch(cursor, INSERT ..., data) succeeded: the rows are in the
\* open transaction.
ExecuteBatch ==
    /\ pc = "exec"
    /\ pending' = buffer
    /\ txlog' = Append(txlog, [t |-> PhaseTable(phase), ids |-> Ids(buffer),
                               st |-> "open", c |-> pool.gets])
    /\ pc' = "commit"
    /\ UNCHANGED <<cfg, today, lock, phase, pool, conn, registries, store, buffer, inserted,
                   loc, tasks, gen, generated, phaseLog, error>>

\* execute_batch raised after some of the rows were executed.
ExecuteFails ==
    /\ pc = "exec"
    /\ \E n \in 0..(Len(buffer) - 1) : pending' = SubSeq(buffer, 1, n)
    /\ txlog' = Append(txlog, [t |-> PhaseTable(phase), ids |-> Ids(buffer),
                               st |-> "failed", c |-> pool.gets])
    /\ error' = [phase |-> phase, kind |-> "insert"]
    /\ pc' = "except"
    /\ UNCHANGED <<cfg, today, lock, phase, pool, conn, registries, store, buffer, inserted,
                   loc, tasks, gen, generated, phaseLog>>

\* conn.commit() succeeded; then the counter and the reset of the list as
\* the flush at hand has them.
CommitBatch ==
    /\ pc = "commit"
    /\ store' = CommitRows(store, PhaseTable(phase), pending)
    /\ pending' = <<>>
    /\ txlog' = [txlog EXCEPT ![Len(txlog)].st = "committed"]
    /\ inserted' = IF loc.add THEN inserted + Len(buffer) ELSE inserted
    /\ buffer' = IF loc.reset THEN <<>> ELSE buffer
    /\ pc' = loc.ret
    /\ UNCHANGED <<cfg, today, lock, phase, pool, conn, registries, loc, tasks, gen,
                   generated, phaseLog, error>>

\* conn.commit() raised.
CommitFails ==
    /\ pc = "commit"
    /\ txlog' = [txlog EXCEPT ![Len(txlog)].st = "failed"]
    /\ error' = [phase |-> phase, kind |-> "commit"]
    /\ pc' = "except"
    /\ UNCHANGED <<cfg, today, lock, phase, pool, conn, registries, db, buffer, inserted,
                   loc, tasks, gen, generated, phaseLog>>

\* except: conn.rollback(); raise -- finally: self.return_connection(conn).
HandlerExcept ==
    /\ pc = "except"
    /\ store' = Rollback(store, PhaseTable(phase), pending)
    /\ pending' = <<>>
    /\ pool' = PutConn(pool)
    /\ conn' = FALSE
    /\ pc' = "run_except"
    /\ UNCHANGED <<cfg, today, lock, phase, registries, buffer, inserted, loc, tasks, gen,
                   hist, phaseLog, error>>

\* A return that keeps the connection of the function checked out.
PhaseReturnKeeps ==
    /\ pc = "ret"
    /\ conn' = FALSE
    /\ phase' = NextPhase(phase)
    /\ pc' = "begin"
    /\ UNCHANGED <<cfg, today, lock, pool, registries, db, buffer, inserted, loc, tasks,
                   gen, hist, phaseLog, error>>

\* return inserted -- finally: self.return_connection(conn); run() goes on
\* to the next call.
PhaseReturn ==
    /\ pc = "ret"
    /\ pool' = PutConn(pool)
    /\ conn' = FALSE
    /\ phase' = NextPhase(phase)
    /\ pc' = "begin"
    /\ UNCHANGED <<cfg, today, lock, registries, db, buffer, inserted, loc, tasks, gen,
                   hist, phaseLog, error>>

----------------------------------------------------------------------------
(* cleanup_data                                                            *)

CleanupBegin ==
    PhaseEnter("Cleanup", "trunc",
               [ti |-> 1, fails |-> 0, cleaned |-> <<>>,
                ret |-> "none", add |-> FALSE, reset |-> FALSE])

\* TRUNCATE TABLE t CASCADE; conn.commit()
Truncate ==
    /\ phase = "Cleanup"
    /\ pc = "trunc"
    /\ loc.ti <= Len(tables_to_clean)
    /\ LET t == tables_to_clean[loc.ti] IN
       /\ store' = [u \in Tables |-> IF u = t THEN <<>> ELSE store[u]]
       /\ loc' = [loc EXCEPT !.ti = @ + 1, !.cleaned = Append(@, t)]
    /\ UNCHANGED <<cfg, today, lock, phase, pc, pool, conn, registries, pending, buffer,
                   inserted, tasks, gen, hist, phaseLog, error>>

\* A failed truncate that leaves the loop instead of continuing it.
TruncateFailsBreaks ==
    /\ phase = "Cleanup"
    /\ pc = "trunc"
    /\ loc.ti <= Len(tables_to_clean)
    /\ loc.fails < MaxTruncFail
    /\ loc' = [loc EXCEPT !.ti = Len(tables_to_clean) + 1, !.fails = @ + 1]
    /\ UNCHANGED <<cfg, today, lock, phase, pc, pool, conn, registries, db, buffer,
                   inserted, tasks, gen, hist, phaseLog, error>>

\* The truncate raised: conn.rollback(); continue
TruncateFails ==
    /\ phase = "Cleanup"
    /\ pc = "trunc"
    /\ loc.ti <= Len(tables_to_clean)
    /\ loc.fails < MaxTruncFail
    /\ loc' = [loc EXCEPT !.ti = @ + 1, !.fails = @ + 1]
    /\ UNCHANGED <<cfg, today, lock, phase, pc, pool, conn, registries, db, buffer,
                   inserted, tasks, gen, hist, phaseLog, error>>

\* The list is done: cursor.close(), and the function returns.
CleanupEnd ==
    /\ phase = "Cleanup"
    /\ pc = "trunc"
    /\ loc.ti > Len(tables_to_clean)
    /\ pc' = "ret"
    /\ UNCHANGED <<cfg, today, lock, phase, pool, conn, registries, db, buffer, inserted,
                   loc, tasks, gen, hist, phaseLog, error>>

----------------------------------------------------------------------------
(* generate_users                                                          *)

UsersBegin ==
    PhaseEnter("Users", "gen",
               [v |-> 1, i |-> 0, ret |-> "none", add |-> FALSE,
                reset |-> FALSE])

\* One pass of a variant's for loop: the record, the registry, and the
\* flush of a full list.
UsersGenerate ==
    /\ phase = "Users"
    /\ pc = "gen"
    /\ loc.i < VariantCounts(cfg)[loc.v]
    /\ LET row == [id |-> nextId + 1, type |-> UserTypes[loc.v]]
           buf == Append(buffer, row)
       IN /\ buffer' = buf
          /\ user_ids' = Append(user_ids, row.id)
          /\ generated' = [generated EXCEPT !["users"] = Append(@, row.id)]
          /\ loc' = Flush([loc EXCEPT !.i = @ + 1], "gen", TRUE, TRUE)
          /\ pc' = IF BatchFull(buf, cfg.batch_size) THEN "exec" ELSE "gen"
    /\ nextId' = nextId + 1
    /\ rng' = NextRng(rng)
    /\ UNCHANGED <<cfg, today, lock, phase, pool, conn, category_ids, product_ids,
                   product_info, order_ids, db, inserted, tasks, txlog,
                   phaseLog, error>>

\* The end of a variant's loop without the flush of what is left.
UsersLoopEndNoFlush ==
    /\ phase = "Users"
    /\ pc = "gen"
    /\ loc.i = VariantCounts(cfg)[loc.v]
    /\ pc' = "next"
    /\ loc' = loc
    /\ UNCHANGED <<cfg, today, lock, phase, pool, conn, registries, db, buffer, inserted,
                   tasks, gen, hist, phaseLog, error>>

\* After a variant's loop: the flush of what is left in its list.
UsersLoopEnd ==
    /\ phase = "Users"
    /\ pc = "gen"
    /\ loc.i = VariantCounts(cfg)[loc.v]
    /\ IF buffer # <<>>
       THEN /\ pc' = "exec"
            /\ loc' = Flush(loc, "next", TRUE, FALSE)
       ELSE /\ pc' = "next"
            /\ loc' = loc
    /\ UNCHANGED <<cfg, today, lock, phase, pool, conn, registries, db, buffer, inserted,
                   tasks, gen, hist, phaseLog, error>>

\* The next variant starts with a new list; after GUEST the function returns.
UsersNextVariant ==
    /\ phase = "Users"
    /\ pc = "next"
    /\ IF loc.v < Len(UserTypes)
       THEN /\ loc' = [loc EXCEPT !.v = @ + 1, !.i = 0]
            /\ buffer' = <<>>
            /\ pc' = "gen"
       ELSE /\ loc' = loc
            /\ buffer' = buffer
            /\ pc' = "ret"
    /\ UNCHANGED <<cfg, today, lock, phase, pool, conn, registries, db, inserted, tasks,
                   gen, hist, phaseLog, error>>

----------------------------------------------------------------------------
(* generate_categories                                                     *)

CategoriesBegin ==
    PhaseEnter("Categories", "roots",
               [i |-> 0, level |-> 0, parents |-> <<>>, new_parents |-> <<>>,
                p |-> 1, j |-> 0, children_count |-> 0,
                ret |-> "none", add |-> FALSE, reset |-> FALSE])

\* One pass of the root loop (no flush inside it).
CategoriesRoot ==
    /\ phase = "Categories"
    /\ pc = "roots"
    /\ loc.i < RootCount(cfg.categories_total)
    /\ LET row == [id |-> nextId + 1, parent |-> Null, level |-> 0]
       IN /\ buffer' = Append(buffer, row)
          /\ category_ids' = Append(category_ids, row.id)
          /\ generated' = [generated EXCEPT !["categories"] = Append(@, row.id)]
    /\ loc' = [loc EXCEPT !.i = @ + 1]
    /\ nextId' = nextId + 1
    /\ rng' = NextRng(rng)
    /\ UNCHANGED <<cfg, today, lock, phase, pc, pool, conn, user_ids, product_ids,
                   product_info, order_ids, db, inserted, tasks, txlog,
                   phaseLog, error>>

\* if root_data: one insert of all the roots.
CategoriesRootsEnd ==
    /\ phase = "Categories"
    /\ pc = "roots"
    /\ loc.i = RootCount(cfg.categories_total)
    /\ IF buffer # <<>>
       THEN /\ pc' = "exec"
            /\ loc' = Flush(loc, "children", TRUE, FALSE)
       ELSE /\ pc' = "children"
            /\ loc' = loc
    /\ UNCHANGED <<cfg, today, lock, phase, pool, conn, registries, db, buffer, inserted,
                   tasks, gen, hist, phaseLog, error>>

\* parent_categories = self.category_ids[:root_count]; child_data = []
CategoriesChildrenInit ==
    /\ phase = "Categories"
    /\ pc = "children"
    /\ loc' = [loc EXCEPT
                 !.parents = SubSeq(category_ids, 1,
                                    Min(RootCount(cfg.categories_total),
                                        Len(category_ids))),
                 !.level = 1]
    /\ buffer' = <<>>
    /\ pc' = "while"
    /\ UNCHANGED <<cfg, today, lock, phase, pool, conn, registries, db, inserted, tasks,
                   gen, hist, phaseLog, error>>

\* The while test; after the loop, the flush of what is left in child_data.
CategoriesWhile ==
    /\ phase = "Categories"
    /\ pc = "while"
    /\ IF inserted < cfg.categories_total /\ loc.level <= cfg.max_depth
       THEN /\ loc' = [loc EXCEPT !.new_parents = <<>>, !.p = 1]
            /\ pc' = "for"
       ELSE IF buffer # <<>>
       THEN /\ loc' = Flush(loc, "ret", TRUE, FALSE)
            /\ pc' = "exec"
       ELSE /\ loc' = loc
            /\ pc' = "ret"
    /\ UNCHANGED <<cfg, today, lock, phase, pool, conn, registries, db, buffer, inserted,
                   tasks, gen, hist, phaseLog, error>>

\* A loop that goes round again on the level it was on.
CategoriesForSameLevel ==
    /\ phase = "Categories"
    /\ pc = "for"
    /\ IF loc.p <= Len(loc.parents)
       THEN /\ loc' = [loc EXCEPT
                         !.children_count =
                            ChildrenCount(cfg.children_per_parent,
                                          cfg.categories_total, inserted,
                                          Len(loc.parents)),
                         !.j = 0]
            /\ pc' = "child"
       ELSE /\ loc' = [loc EXCEPT !.parents = loc.new_parents]
            /\ pc' = "while"
    /\ UNCHANGED <<cfg, today, lock, phase, pool, conn, registries, db, buffer, inserted,
                   tasks, gen, hist, phaseLog, error>>

\* A loop that goes to the next level with the parents it had.
CategoriesForKeepsParents ==
    /\ phase = "Categories"
    /\ pc = "for"
    /\ IF loc.p <= Len(loc.parents)
       THEN /\ loc' = [loc EXCEPT
                         !.children_count =
                            ChildrenCount(cfg.children_per_parent,
                                          cfg.categories_total, inserted,
                                          Len(loc.parents)),
                         !.j = 0]
            /\ pc' = "child"
       ELSE /\ loc' = [loc EXCEPT !.level = @ + 1]
            /\ pc' = "while"
    /\ UNCHANGED <<cfg, today, lock, phase, pool, conn, registries, db, buffer, inserted,
                   tasks, gen, hist, phaseLog, error>>

\* for parent_id in parent_categories: children_count; after the loop the
\* new parents become the parents of the next level.
CategoriesFor ==
    /\ phase = "Categories"
    /\ pc = "for"
    /\ IF loc.p <= Len(loc.parents)
       THEN /\ loc' = [loc EXCEPT
                         !.children_count =
                            ChildrenCount(cfg.children_per_parent,
                                          cfg.categories_total, inserted,
                                          Len(loc.parents)),
                         !.j = 0]
            /\ pc' = "child"
       ELSE /\ loc' = [loc EXCEPT !.parents = loc.new_parents,
                                  !.level = @ + 1]
            /\ pc' = "while"
    /\ UNCHANGED <<cfg, today, lock, phase, pool, conn, registries, db, buffer, inserted,
                   tasks, gen, hist, phaseLog, error>>

\* One pass of for j in range(children_count), with its break.
CategoriesChild ==
    /\ phase = "Categories"
    /\ pc = "child"
    /\ IF loc.j < loc.children_count /\ inserted < cfg.categories_total
       THEN LET row == [id |-> nextId + 1, parent |-> loc.parents[loc.p],
                        level |-> loc.level]
                buf == Append(buffer, row)
            IN /\ buffer' = buf
               /\ category_ids' = Append(category_ids, row.id)
               /\ generated' =
                     [generated EXCEPT !["categories"] = Append(@, row.id)]
               /\ loc' = Flush([loc EXCEPT !.j = @ + 1,
                                           !.new_parents = Append(@, row.id)],
                               "child", FALSE, TRUE)
               /\ inserted' = inserted + 1
               /\ nextId' = nextId + 1
               /\ rng' = NextRng(rng)
               /\ pc' = IF BatchFull(buf, cfg.batch_size) THEN "exec" ELSE "child"
       ELSE /\ loc' = [loc EXCEPT !.p = @ + 1]
            /\ pc' = "for"
            /\ UNCHANGED <<buffer, category_ids, generated, inserted, nextId,
                           rng>>
    /\ UNCHANGED <<cfg, today, lock, phase, pool, conn, user_ids, product_ids,
                   product_info, order_ids, db, tasks, txlog, phaseLog, error>>

----------------------------------------------------------------------------
(* generate_products                                                       *)

AllDone == \A k \in 1..Len(tasks) : tasks[k] = "done"

\* The worker that finished task k takes the first task still queued.
TasksAfter(k) ==
    LET queued == {q \in 1..Len(tasks) : tasks[q] = "queued"}
        first == CHOOSE q \in queued : \A o \in queued : q <= o
    IN [q \in 1..Len(tasks) |->
          IF q = k THEN "done"
          ELSE IF queued # {} /\ q = first THEN "running"
          ELSE tasks[q]]

\* The chunks are built and submitted; max_workers threads start on them.
ProductsBegin ==
    /\ phase = "Products"
    /\ pc = "begin"
    /\ LET chunks == Chunks(cfg.products_total, cfg.batch_size,
                            cfg.parallel_workers)
       IN /\ tasks' = [k \in 1..Len(chunks) |->
                         IF k <= cfg.parallel_workers THEN "running"
                         ELSE "queued"]
          /\ loc' = [chunks |-> chunks, all_product_data |-> <<>>,
                     all_product_info |-> <<>>, i |-> 0,
                     ret |-> "none", add |-> FALSE, reset |-> FALSE]
    /\ phaseLog' = Append(phaseLog, "Products")
    /\ inserted' = 0
    /\ buffer' = <<>>
    /\ pc' = "collect"
    /\ UNCHANGED <<cfg, today, lock, phase, pool, conn, registries, db, gen, hist, error>>

\* A chunk task that appends its identifiers to product_ids itself.
TaskFinishWrites(k) ==
    /\ phase = "Products"
    /\ pc = "collect"
    /\ tasks[k] = "running"
    /\ LET c == loc.chunks[k]
           rows == GenerateProductsBatch(c[1], c[2], category_ids, rng, nextId)
       IN /\ loc' = [loc EXCEPT
                       !.all_product_info = DictUpdate(@, ProductInfoOf(rows))]
          /\ product_ids' = product_ids \o Ids(rows)
          /\ generated' = [generated EXCEPT !["products"] = @ \o Ids(rows)]
          /\ nextId' = nextId + Len(rows)
          /\ rng' = RngIter(rng, Len(rows))
    /\ tasks' = TasksAfter(k)
    /\ UNCHANGED <<cfg, today, lock, phase, pc, pool, conn, user_ids, category_ids,
                   product_info, order_ids, db, buffer, inserted, txlog,
                   phaseLog, error>>

\* A chunk task completes and as_completed hands its result to the caller.
TaskFinish(k) ==
    /\ phase = "Products"
    /\ pc = "collect"
    /\ tasks[k] = "running"
    /\ LET c == loc.chunks[k]
           rows == GenerateProductsBatch(c[1], c[2], category_ids, rng, nextId)
       IN /\ loc' = [loc EXCEPT
                       !.all_product_data = @ \o rows,
                       !.all_product_info = DictUpdate(@, ProductInfoOf(rows))]
          /\ generated' = [generated EXCEPT !["products"] = @ \o Ids(rows)]
          /\ nextId' = nextId + Len(rows)
          /\ rng' = RngIter(rng, Len(rows))
    /\ tasks' = TasksAfter(k)
    /\ UNCHANGED <<cfg, today, lock, phase, pc, pool, conn, registries, db, buffer,
                   inserted, txlog, phaseLog, error>>

\* A chunk task that raised, after which the records collected so far are
\* inserted all the same.
TaskFailsLate(k) ==
    /\ phase = "Products"
    /\ pc = "collect"
    /\ tasks[k] = "running"
    /\ tasks' = [q \in 1..Len(tasks) |-> IF q = k THEN "failed" ELSE "done"]
    /\ error' = [phase |-> "Products", kind |-> "chunk"]
    /\ pc' = "ins"
    /\ UNCHANGED <<cfg, today, lock, phase, pool, conn, registries, db, buffer, inserted,
                   loc, gen, hist, phaseLog>>

\* A chunk task raised: future.result() raises in the caller, the executor
\* is left once the other tasks have run (their results are dropped), and
\* generate_products' except re-raises. No connection is held.
TaskFails(k) ==
    /\ phase = "Products"
    /\ pc = "collect"
    /\ tasks[k] = "running"
    /\ tasks' = [q \in 1..Len(tasks) |-> IF q = k THEN "failed" ELSE "done"]
    /\ error' = [phase |-> "Products", kind |-> "chunk"]
    /\ pc' = "run_except"
    /\ UNCHANGED <<cfg, today, lock, phase, pool, conn, registries, db, buffer, inserted,
                   loc, gen, hist, phaseLog>>

\* An entry of the with block that does not take the lock.
ProductsLockSkipped ==
    /\ phase = "Products"
    /\ pc = "collect"
    /\ AllDone
    /\ pc' = "locked"
    /\ UNCHANGED <<cfg, today, lock, phase, pool, conn, registries, db, buffer,
                   inserted, loc, tasks, gen, hist, phaseLog, error>>

\* The executor is left with every task done; with self.lock: the lock is
\* taken (no other thread holds it).
ProductsLock ==
    /\ phase = "Products"
    /\ pc = "collect"
    /\ AllDone
    /\ ~lock
    /\ lock' = TRUE
    /\ pc' = "locked"
    /\ UNCHANGED <<cfg, today, phase, pool, conn, registries, db, buffer, inserted,
                   loc, tasks, gen, hist, phaseLog, error>>

\* Inside the with block the identifiers and the info of all chunks are
\* merged; leaving the block releases the lock.
ProductsMerge ==
    /\ phase = "Products"
    /\ pc = "locked"
    /\ product_ids' = MergeProductIds(product_ids, loc.all_product_data)
    /\ product_info' = DictUpdate(product_info, loc.all_product_info)
    /\ lock' = FALSE
    /\ pc' = "ins"
    /\ UNCHANGED <<cfg, today, phase, pool, conn, user_ids, category_ids, order_ids,
                   db, buffer, inserted, loc, tasks, gen, hist, phaseLog,
                   error>>

\* The next slice of batch_size records; _insert_products_batch takes a
\* connection for it.
ProductsInsertBegin ==
    /\ phase = "Products"
    /\ pc = "ins"
    /\ loc.i < Len(loc.all_product_data)
    /\ buffer' = SubSeq(loc.all_product_data, loc.i + 1,
                        Min(loc.i + cfg.batch_size, Len(loc.all_product_data)))
    /\ pool' = GetConn(pool)
    /\ IF CanGet(pool)
       THEN /\ conn' = TRUE
            /\ pc' = "exec"
            /\ loc' = Flush(loc, "release", FALSE, FALSE)
            /\ error' = error
       ELSE /\ conn' = conn
            /\ pc' = "run_except"
            /\ loc' = loc
            /\ error' = [phase |-> "Products", kind |-> "pool"]
    /\ UNCHANGED <<cfg, today, lock, phase, registries, db, inserted, tasks, gen, hist,
                   phaseLog>>

\* _insert_products_batch without its finally: the connection is kept.
ProductsInsertEndLeaks ==
    /\ phase = "Products"
    /\ pc = "release"
    /\ conn' = FALSE
    /\ inserted' = inserted + Len(buffer)
    /\ loc' = [loc EXCEPT !.i = @ + cfg.batch_size]
    /\ pc' = "ins"
    /\ UNCHANGED <<cfg, today, lock, phase, pool, registries, db, buffer, tasks, gen, hist,
                   phaseLog, error>>

\* _insert_products_batch returns: finally: return_connection; the caller
\* adds len(batch) to inserted.
ProductsInsertEnd ==
    /\ phase = "Products"
    /\ pc = "release"
    /\ pool' = PutConn(pool)
    /\ conn' = FALSE
    /\ inserted' = inserted + Len(buffer)
    /\ loc' = [loc EXCEPT !.i = @ + cfg.batch_size]
    /\ pc' = "ins"
    /\ UNCHANGED <<cfg, today, lock, phase, registries, db, buffer, tasks, gen, hist,
                   phaseLog, error>>

\* All slices are inserted: return inserted.
ProductsEnd ==
    /\ phase = "Products"
    /\ pc = "ins"
    /\ loc.i >= Len(loc.all_product_data)
    /\ phase' = NextPhase("Products")
    /\ pc' = "begin"
    /\ UNCHANGED <<cfg, today, lock, pool, conn, registries, db, buffer, inserted, loc,
                   tasks, gen, hist, phaseLog, error>>

----------------------------------------------------------------------------
(* generate_orders                                                         *)

OrdersBegin ==
    PhaseEnter("Orders", "gen",
               [i |-> 0, member_user_ids |-> MemberUserIds(user_ids),
                ret |-> "none", add |-> FALSE, reset |-> FALSE])

OrdersGenerate ==
    /\ phase = "Orders"
    /\ pc = "gen"
    /\ loc.i < cfg.orders_total
    /\ LET row == [id |-> nextId + 1,
                   order_number |-> OrderNumber(today, loc.i),
                   user |-> IF loc.member_user_ids = <<>> THEN Null
                            ELSE Draw(loc.member_user_ids, rng)]
           buf == Append(buffer, row)
       IN /\ buffer' = buf
          /\ order_ids' = Append(order_ids, row.id)
          /\ generated' = [generated EXCEPT !["orders"] = Append(@, row.id)]
          /\ loc' = Flush([loc EXCEPT !.i = @ + 1], "gen", TRUE, TRUE)
          /\ pc' = IF BatchFull(buf, cfg.batch_size) THEN "exec" ELSE "gen"
    /\ nextId' = nextId + 1
    /\ rng' = NextRng(rng)
    /\ UNCHANGED <<cfg, today, lock, phase, pool, conn, user_ids, category_ids,
                   product_ids, product_info, db, inserted, tasks, txlog,
                   phaseLog, error>>

\* The end of a single loop without the flush of what is left.
LoopEndNoFlush(p, total) ==
    /\ phase = p
    /\ pc = "gen"
    /\ loc.i = total
    /\ pc' = "ret"
    /\ loc' = loc
    /\ UNCHANGED <<cfg, today, lock, phase, pool, conn, registries, db, buffer, inserted,
                   tasks, gen, hist, phaseLog, error>>

\* After the loop of a single-loop phase (orders, audit_log, query_history):
\* the flush of what is left, then return.
LoopEnd(p, total) ==
    /\ phase = p
    /\ pc = "gen"
    /\ loc.i = total
    /\ IF buffer # <<>>
       THEN /\ pc' = "exec"
            /\ loc' = Flush(loc, "ret", TRUE, FALSE)
       ELSE /\ pc' = "ret"
            /\ loc' = loc
    /\ UNCHANGED <<cfg, today, lock, phase, pool, conn, registries, db, buffer, inserted,
                   tasks, gen, hist, phaseLog, error>>

OrdersLoopEnd == LoopEnd("Orders", cfg.orders_total)

----------------------------------------------------------------------------
(* generate_order_items                                                    *)

\* if not self.product_info: return 0 -- else the loop over order_ids.
OrderItemsBegin ==
    PhaseEnter("OrderItems",
               IF product_info = <<>> THEN "ret" ELSE "order",
               [o |-> 1, num_items |-> 0, k |-> 0,
                product_list |-> DictKeys(product_info),
                ret |-> "none", add |-> FALSE, reset |-> FALSE])

\* for order_id in self.order_ids: num_items is drawn; after the loop the
\* flush of what is left.
OrderItemsOrder ==
    /\ phase = "OrderItems"
    /\ pc = "order"
    /\ IF loc.o <= Len(order_ids)
       THEN /\ loc' = [loc EXCEPT !.num_items = Draw(<<1, 2, 3, 4, 5>>, rng),
                                  !.k = 0]
            /\ rng' = NextRng(rng)
            /\ pc' = "gen"
       ELSE /\ rng' = rng
            /\ IF buffer # <<>>
               THEN /\ loc' = Flush(loc, "ret", TRUE, FALSE)
                    /\ pc' = "exec"
               ELSE /\ loc' = loc
                    /\ pc' = "ret"
    /\ UNCHANGED <<cfg, today, lock, phase, pool, conn, registries, db, buffer, inserted,
                   tasks, nextId, hist, phaseLog, error>>

\* One pass of for _ in range(num_items).
OrderItemsGenerate ==
    /\ phase = "OrderItems"
    /\ pc = "gen"
    /\ IF loc.k < loc.num_items
       THEN LET product_id == Draw(loc.product_list, rng)
                info == DictGet(product_info, product_id)
                quantity == RandInt(cfg.min_quantity, cfg.max_quantity,
                                    NextRng(rng))
                rate == Draw(Rates, NextRng(NextRng(rng)))
                discount_amount == DiscountAmount(info.price, rate, quantity)
                row == [id |-> nextId + 1, order |-> order_ids[loc.o],
                        product |-> product_id,
                        product_name |-> info.name,
                        product_sku |-> info.sku,
                        quantity |-> quantity,
                        unit_price |-> info.price,
                        discount_amount |-> discount_amount,
                        line_total |-> LineTotal(info.price, quantity,
                                                 discount_amount)]
                buf == Append(buffer, row)
            IN /\ buffer' = buf
               /\ generated' =
                     [generated EXCEPT !["order_items"] = Append(@, row.id)]
               /\ loc' = Flush([loc EXCEPT !.k = @ + 1], "gen", FALSE, TRUE)
               /\ inserted' = inserted + 1
               /\ nextId' = nextId + 1
               /\ rng' = NextRng(rng)
               /\ pc' = IF BatchFull(buf, cfg.batch_size) THEN "exec" ELSE "gen"
       ELSE /\ loc' = [loc EXCEPT !.o = @ + 1]
            /\ pc' = "order"
            /\ UNCHANGED <<buffer, generated, inserted, nextId, rng>>
    /\ UNCHANGED <<cfg, today, lock, phase, pool, conn, registries, db, tasks, txlog,
                   phaseLog, error>>

----------------------------------------------------------------------------
(* generate_audit_log, generate_query_history                              *)

AuditLogBegin ==
    PhaseEnter("AuditLog", "gen",
               [i |-> 0, ret |-> "none", add |-> FALSE, reset |-> FALSE])

\* One pass of the loop; random.choice of an empty list raises.
AuditLogGenerate ==
    /\ phase = "AuditLog"
    /\ pc = "gen"
    /\ loc.i < cfg.audit_total
    /\ LET entities == user_ids \o product_ids \o order_ids
       IN IF entities = <<>>
          THEN /\ error' = [phase |-> "AuditLog", kind |-> "generate"]
               /\ pc' = "except"
               /\ UNCHANGED <<buffer, generated, loc, nextId, rng>>
          ELSE LET row == [id |-> nextId + 1,
                           entity |-> Draw(entities, rng),
                           user |-> IF user_ids = <<>> THEN Null
                                    ELSE Draw(user_ids, NextRng(rng))]
                   buf == Append(buffer, row)
               IN /\ buffer' = buf
                  /\ generated' =
                        [generated EXCEPT !["audit_log"] = Append(@, row.id)]
                  /\ loc' = Flush([loc EXCEPT !.i = @ + 1], "gen", TRUE, TRUE)
                  /\ nextId' = nextId + 1
                  /\ rng' = NextRng(NextRng(rng))
                  /\ pc' = IF BatchFull(buf, cfg.batch_size) THEN "exec"
                           ELSE "gen"
                  /\ error' = error
    /\ UNCHANGED <<cfg, today, lock, phase, pool, conn, registries, db, inserted, tasks,
                   txlog, phaseLog>>

AuditLogLoopEnd == LoopEnd("AuditLog", cfg.audit_total)

QueryHistoryBegin ==
    PhaseEnter("QueryHistory", "gen",
               [i |-> 0, ret |-> "none", add |-> FALSE, reset |-> FALSE])

QueryHistoryGenerate ==
    /\ phase = "QueryHistory"
    /\ pc = "gen"
    /\ loc.i < cfg.query_total
    /\ LET row == [id |-> nextId + 1]
           buf == Append(buffer, row)
       IN /\ buffer' = buf
          /\ generated' =
                [generated EXCEPT !["query_history"] = Append(@, row.id)]
          /\ loc' = Flush([loc EXCEPT !.i = @ + 1], "gen", TRUE, TRUE)
          /\ pc' = IF BatchFull(buf, cfg.batch_size) THEN "exec" ELSE "gen"
    /\ nextId' = nextId + 1
    /\ rng' = NextRng(rng)
    /\ UNCHANGED <<cfg, today, lock, phase, pool, conn, registries, db, inserted, tasks,
                   txlog, phaseLog, error>>

QueryHistoryLoopEnd == LoopEnd("QueryHistory", cfg.query_total)

----------------------------------------------------------------------------

Next ==
    \/ RunStart
    \/ ConnectFails
    \/ RunFinish
    \/ RunExcept
    \/ ExecuteBatch
    \/ ExecuteFails
    \/ CommitBatch
    \/ CommitFails
    \/ HandlerExcept
    \/ PhaseReturn
    \/ CleanupBegin
    \/ Truncate
    \/ TruncateFails
    \/ CleanupEnd
    \/ UsersBegin
    \/ UsersGenerate
    \/ UsersLoopEnd
    \/ UsersNextVariant
    \/ CategoriesBegin
    \/ CategoriesRoot
    \/ CategoriesRootsEnd
    \/ CategoriesChildrenInit
    \/ CategoriesWhile
    \/ CategoriesFor
    \/ CategoriesChild
    \/ ProductsBegin
    \/ \E k \in 1..Len(tasks) : TaskFinish(k)
    \/ \E k \in 1..Len(tasks) : TaskFails(k)
    \/ ProductsLock
    \/ ProductsMerge
    \/ ProductsInsertBegin
    \/ ProductsInsertEnd
    \/ ProductsEnd
    \/ OrdersBegin
    \/ OrdersGenerate
    \/ OrdersLoopEnd
    \/ OrderItemsBegin
    \/ OrderItemsOrder
    \/ OrderItemsGenerate
    \/ AuditLogBegin
    \/ AuditLogGenerate
    \/ AuditLogLoopEnd
    \/ QueryHistoryBegin
    \/ QueryHistoryGenerate
    \/ QueryHistoryLoopEnd

Spec == Init /\ [][Next]_vars

----------------------------------------------------------------------------
(* generate_users and generate_categories alone: run() from construction   *)
(* to the return of generate_categories with no failure, over many users   *)
(* and categories configurations, and over CONFIG's categories entry.      *)

UnitUsers == 7
UnitCategories == 32
UnitDepth == 3
UnitChildren == 3

\* CONFIG: categories total, max_depth, children_per_parent; batch_size.
ConfigCategoriesTotal == 1000
ConfigMaxDepth == 3
ConfigChildrenPerParent == 5
ConfigBatchSize == 1000

\* The ratios, in tenths, that sum to 1.
Ratios ==
    {r \in (0..10) \X (0..10) \X (0..10) : r[1] + r[2] + r[3] = 10}

UnitConfig(b, u, r, c, d, k) ==
    [cleanup |-> FALSE,
     batch_size |-> b,
     connection_pool_size |-> MaxPool,
     parallel_workers |-> 1,
     users_total |-> u,
     ratios |-> r,
     categories_total |-> c,
     max_depth |-> d,
     children_per_parent |-> k,
     products_total |-> 0,
     orders_total |-> 0,
     audit_total |-> 0,
     query_total |-> 0,
     min_price |-> MinPrice,
     max_price |-> MaxPrice,
     min_quantity |-> MinQuantity,
     max_quantity |-> MaxQuantity]

UnitConfigs ==
    {UnitConfig(MaxBatch, u, r, 0, 0, 1) : u \in 0..UnitUsers, r \in Ratios}
    \cup {UnitConfig(MaxBatch, 0, <<1, 3, 6>>, c, d, k) :
             c \in 0..UnitCategories, d \in 0..UnitDepth, k \in 1..UnitChildren}

ScenarioConfig ==
    UnitConfig(ConfigBatchSize, MaxUsers, <<1, 3, 6>>, ConfigCategoriesTotal,
               ConfigMaxDepth, ConfigChildrenPerParent)

\* The generator as constructed with configuration c.
Constructed(c) ==
    /\ cfg = c
    /\ rng = 0
    /\ phase = "Idle"
    /\ pc = "begin"
    /\ pool = NoPool
    /\ conn = FALSE
    /\ user_ids = <<>>
    /\ category_ids = <<>>
    /\ product_ids = <<>>
    /\ product_info = <<>>
    /\ order_ids = <<>>
    /\ store = [t \in Tables |-> <<>>]
    /\ pending = <<>>
    /\ buffer = <<>>
    /\ inserted = 0
    /\ loc = [ret |-> "none"]
    /\ tasks = <<>>
    /\ nextId = 0
    /\ txlog = <<>>
    /\ generated = [t \in Tables |-> <<>>]
    /\ phaseLog = <<>>
    /\ error = NoError
    /\ lock = FALSE
    /\ today = 0

InitUnits == \E c \in UnitConfigs : Constructed(c)

InitScenario == Constructed(ScenarioConfig)

NextUnits ==
    \/ RunStart
    \/ ExecuteBatch
    \/ CommitBatch
    \/ PhaseReturn /\ phase \in {"Users", "Categories"}
    \/ UsersBegin
    \/ UsersGenerate
    \/ UsersLoopEnd
    \/ UsersNextVariant
    \/ CategoriesBegin
    \/ CategoriesRoot
    \/ CategoriesRootsEnd
    \/ CategoriesChildrenInit
    \/ CategoriesWhile
    \/ CategoriesFor
    \/ CategoriesChild

SpecUnits == InitUnits /\ [][NextUnits]_vars

SpecScenario == InitScenario /\ [][NextUnits]_vars

----------------------------------------------------------------------------
(* The chunks of generate_products alone: run() with no users and no       *)
(* categories up to the merge, over products totals, batch sizes and       *)
(* worker counts.                                                          *)

ChunkTotal == 25
ChunkBatch == 2
ChunkWorkers == 3

ChunkConfigs ==
    {[UnitConfig(b, 0, <<1, 3, 6>>, 0, 0, 1) EXCEPT
         !.products_total = n, !.parallel_workers = w] :
       n \in 0..ChunkTotal, b \in 1..ChunkBatch, w \in 1..ChunkWorkers}

InitChunks == \E c \in ChunkConfigs : Constructed(c)

NextChunks ==
    \/ RunStart
    \/ PhaseReturn /\ phase \in {"Users", "Categories"}
    \/ UsersBegin
    \/ UsersLoopEnd
    \/ UsersNextVariant
    \/ CategoriesBegin
    \/ CategoriesRootsEnd
    \/ CategoriesChildrenInit
    \/ CategoriesWhile
    \/ ProductsBegin
    \/ \E k \in 1..Len(tasks) : TaskFinish(k)
    \/ ProductsLock
    \/ ProductsMerge

SpecChunks == InitChunks /\ [][NextChunks]_vars

----------------------------------------------------------------------------
(* run() called again on the same BulkDataGenerator.                       *)

MaxRuns == 2

\* The calls of run() that got as far as generate_users.
RunsStarted == Cardinality({k \in 1..Len(phaseLog) : phaseLog[k] = "Users"})

\* run() has returned and is called once more on the same object: nothing
\* of the object changes between the two calls (connect() will replace the
\* closed pool). txlog and generated start anew: they record one run.
RunAgain ==
    /\ phase = "Done"
    /\ RunsStarted < MaxRuns
    /\ phase' = "Idle"
    /\ pc' = "begin"
    /\ txlog' = SubSeq(txlog, 1, 0)
    /\ generated' = [t \in Tables |-> SubSeq(generated[t], 1, 0)]
    /\ UNCHANGED <<cfg, today, lock, pool, conn, registries, db, buffer, inserted, loc,
                   tasks, gen, phaseLog, error>>

NextAgain == Next \/ RunAgain

SpecAgain == Init /\ [][NextAgain]_vars

----------------------------------------------------------------------------
(* What the properties below read from the state.                          *)

PhaseSet == SeqRange(PhaseOrder)

StoreIds(t) == SeqRange(Ids(store[t]))

\* The transactions of table t, and those of them that committed.
TxOf(t) == SelectSeq(txlog, LAMBDA e : e.t = t)

Committed(t) == SelectSeq(txlog, LAMBDA e : e.t = t /\ e.st = "committed")

RECURSIVE ConcatIds(_)
ConcatIds(es) == IF es = <<>> THEN <<>> ELSE Head(es).ids \o ConcatIds(Tail(es))

Sizes(es) == [k \in 1..Len(es) |-> Len(es[k].ids)]

IsPrefix(a, b) == Len(a) <= Len(b) /\ a = SubSeq(b, 1, Len(a))

\* The sizes of the batches n records make with batch size b.
BatchSizes(n, b) ==
    [k \in 1..CeilDiv(n, b) |-> IF k * b <= n THEN b ELSE n - (k - 1) * b]

\* The tables loaded by the phases that come after phase p in run().
LaterTables(p) ==
    {PhaseTable(q) : q \in {r \in PhaseSet : PhaseIndex(r) > PhaseIndex(p)}}

\* The run ended by a failed insert or commit of a batch.
BatchFailed == error.kind \in {"insert", "commit"}

----------------------------------------------------------------------------
(* C1: when the insert or the commit of the k-th batch of a table fails,   *)
(* the batch is rolled back, the table holds exactly the rows of its       *)
(* batches 1..k-1 (the first records generated for it), no later table     *)
(* receives a row, no transaction follows, and run() ends raising.         *)
C1_BatchFailureIsolation ==
    BatchFailed =>
        LET t == PhaseTable(error.phase)
            mine == TxOf(t)
            k == Len(mine)
        IN /\ k >= 1
           /\ txlog[Len(txlog)] = mine[k]
           /\ mine[k].st = "failed"
           /\ \A j \in 1..(k - 1) : mine[j].st = "committed"
           /\ Ids(store[t]) = ConcatIds(SubSeq(mine, 1, k - 1))
           /\ IsPrefix(Ids(store[t]), generated[t])
           /\ SeqRange(mine[k].ids) \cap StoreIds(t) = {}
           /\ \A u \in LaterTables(error.phase) :
                 store[u] = <<>> /\ TxOf(u) = <<>>
           /\ phase \in {error.phase, "Failed"}
           /\ pc \in {"except", "run_except", "end"}
           /\ pc \in {"run_except", "end"} => pending = <<>>
           /\ pc = "end" => phase = "Failed"

\* The third batch of products failed at its commit.
C1_Witness ==
    /\ phase = "Failed"
    /\ error = [phase |-> "Products", kind |-> "commit"]
    /\ Len(Committed("products")) = 2
    /\ Len(store["products"]) = 2 * cfg.batch_size

----------------------------------------------------------------------------
\* The merge of generate_products has run.
ProductsMerged ==
    /\ \E k \in 1..Len(phaseLog) : phaseLog[k] = "Products"
    /\ ~(phase = "Products" /\ pc \in {"collect", "locked"})
    /\ error.kind # "chunk"

(* C2: whatever the number of workers and the order in which the chunks   *)
(* complete, once the chunks are merged the product registry holds every   *)
(* identifier a chunk produced exactly once, products_total of them, and   *)
(* the info map has exactly these identifiers as keys, one per product.    *)
C2_ParallelMergeComplete ==
    ProductsMerged =>
        /\ Len(generated["products"]) = cfg.products_total
        /\ Len(product_ids) = cfg.products_total
        /\ NoDup(product_ids)
        /\ SeqRange(product_ids) = SeqRange(generated["products"])
        /\ Len(product_info) = cfg.products_total
        /\ SeqRange(DictKeys(product_info)) = SeqRange(product_ids)
        /\ {product_info[k].sku : k \in 1..Len(product_info)}
              = 1..cfg.products_total

\* Three chunks on two workers, merged with a later chunk collected first.
C2_Witness ==
    /\ ProductsMerged
    /\ cfg.parallel_workers = 2
    /\ Len(tasks) = 3
    /\ product_ids # <<>>
    /\ product_info[1].sku # 1

----------------------------------------------------------------------------
(* C3: when a phase is about to start, every identifier in the registries  *)
(* is the identifier of a committed row, no transaction is open, and every *)
(* record generated by the phases before it is committed and registered.   *)
C3_PhaseBarrier ==
    (phase \in PhaseSet /\ pc = "begin") =>
        /\ pending = <<>>
        /\ SeqRange(user_ids) \subseteq StoreIds("users")
        /\ SeqRange(category_ids) \subseteq StoreIds("categories")
        /\ SeqRange(product_ids) \subseteq StoreIds("products")
        /\ SeqRange(DictKeys(product_info)) \subseteq StoreIds("products")
        /\ SeqRange(order_ids) \subseteq StoreIds("orders")
        /\ \A t \in Tables : Ids(store[t]) = generated[t]
        /\ SeqRange(user_ids) = SeqRange(generated["users"])
        /\ SeqRange(category_ids) = SeqRange(generated["categories"])
        /\ SeqRange(product_ids) = SeqRange(generated["products"])
        /\ SeqRange(order_ids) = SeqRange(generated["orders"])
        /\ \A u \in {PhaseTable(phase)} \cup LaterTables(phase) :
              store[u] = <<>>

\* Order items are about to start with orders and products registered.
C3_Witness ==
    /\ phase = "OrderItems"
    /\ pc = "begin"
    /\ Len(order_ids) = MaxOrders
    /\ Len(product_ids) = MaxProducts
    /\ cfg.batch_size = MaxBatch

----------------------------------------------------------------------------
\* The rows a row of table t refers to, as <<table, id>>.
Refs(t, row) ==
    IF t = "categories" THEN {<<"categories", row.parent>>}
    ELSE IF t = "products" THEN {<<"categories", row.category>>}
    ELSE IF t = "orders" THEN {<<"users", row.user>>}
    ELSE IF t = "order_items"
         THEN {<<"orders", row.order>>, <<"products", row.product>>}
    ELSE IF t = "audit_log"
         THEN {<<"users", row.user>>, <<"entity", row.entity>>}
    ELSE {}

\* The committed identifiers a reference into table t may point to; an
\* audit entry's entity is a user, a product or an order.
Referable(t) ==
    IF t = "entity"
    THEN StoreIds("users") \cup StoreIds("products") \cup StoreIds("orders")
    ELSE StoreIds(t)

\* Every non-null reference of rows[k] points to a committed row or to one
\* of rows[1..k-1].
RefsResolve(t, rows) ==
    \A k \in 1..Len(rows) :
        \A ref \in Refs(t, rows[k]) :
            ref[2] # Null =>
                \/ ref[2] \in Referable(ref[1])
                \/ ref[1] = t /\ ref[2] \in SeqRange(Ids(SubSeq(rows, 1, k - 1)))

(* C4: in a run that starts with cleanup and meets no failure, every       *)
(* non-null reference of a row that is being inserted points to a row      *)
(* already committed or placed earlier in the same batch; so no insert     *)
(* can fail on a foreign key.                                              *)
C4_ForeignKeysResolve ==
    (cfg.cleanup /\ error = NoError /\ phase \in PhaseSet) =>
        RefsResolve(PhaseTable(phase), pending)

\* An order item, referring to an order and a product, is being inserted.
C4_Witness ==
    /\ cfg.cleanup
    /\ error = NoError
    /\ phase = "OrderItems"
    /\ pending # <<>>
    /\ pending[1].order # Null
    /\ pending[1].product # Null

----------------------------------------------------------------------------
\* The phase that loads table t has returned.
Loaded(t) ==
    \/ phase \in {"Finish", "Done"}
    \/ /\ phase \in PhaseSet
       /\ \E q \in PhaseSet : PhaseTable(q) = t /\ PhaseIndex(q) < PhaseIndex(phase)

(* C5: in a run that meets no failure every generated record is inserted   *)
(* at most once while its phase runs and exactly once when its phase has   *)
(* returned: the committed batches of a table, concatenated, are the       *)
(* records generated for it, each once, none missing.                      *)
C5_ExactlyOnce ==
    error = NoError =>
        \A t \in Tables :
            /\ NoDup(generated[t])
            /\ NoDup(Ids(store[t]))
            /\ IsPrefix(Ids(store[t]), generated[t])
            /\ Ids(store[t]) = ConcatIds(Committed(t))
            /\ Loaded(t) => Ids(store[t]) = generated[t]

\* A finished run that loaded all seven tables, some in partial batches.
C5_Witness ==
    /\ phase = "Done"
    /\ cfg.batch_size = MaxBatch
    /\ \A t \in Tables : store[t] # <<>>
    /\ Len(store["products"]) = 11
    /\ Len(store["users"]) = MaxUsers

----------------------------------------------------------------------------
\* A loading phase has failed.
PhaseFailed == error.phase \in PhaseSet

\* The transactions that did not commit.
NotCommitted == SelectSeq(txlog, LAMBDA e : e.st # "committed")

(* C6: once a loading phase has failed, no later phase is started, no      *)
(* batch is attempted again and nothing is attempted after the failure;    *)
(* the only steps left are the handler's rollback and run()'s re-raise,    *)
(* both always possible, and the run ends in failure with the pool         *)
(* closed, never in success.                                               *)
C6_FailStop ==
    PhaseFailed =>
        /\ phase \in {error.phase, "Failed"}
        /\ phaseLog[Len(phaseLog)] = error.phase
        /\ pc \in {"except", "run_except", "end"}
        /\ pc = "except" => ENABLED HandlerExcept
        /\ pc = "run_except" => ENABLED RunExcept
        /\ NoDup(ConcatIds(txlog))
        /\ BatchFailed =>
              /\ Len(NotCommitted) = 1
              /\ txlog[Len(txlog)].st = "failed"
        /\ ~BatchFailed => NotCommitted = <<>>
        /\ pc = "end" =>
              /\ phase = "Failed"
              /\ pool.state = "closed"
              /\ ~conn

\* The run ended in failure on a batch of orders, after three phases loaded.
C6_Witness ==
    /\ phase = "Failed"
    /\ error = [phase |-> "Orders", kind |-> "insert"]
    /\ Len(Committed("orders")) >= 1
    /\ pool.state = "closed"

----------------------------------------------------------------------------
\* The order of the phases as the specification gives it.
GenerationOrder ==
    <<"Users", "Categories", "Products", "Orders", "OrderItems", "AuditLog",
      "QueryHistory">>

ExpectedPhases ==
    IF cfg.cleanup THEN <<"Cleanup">> \o GenerationOrder ELSE GenerationOrder

(* C7: the phases are entered in the order Cleanup (only when enabled),    *)
(* Users, Categories, Products, Orders, OrderItems, AuditLog,              *)
(* QueryHistory, each once; the run is Done only after all of them, with   *)
(* no failure; and a run in which a loading phase failed ends Failed.      *)
C7_PhaseOrder ==
    /\ IsPrefix(phaseLog, ExpectedPhases)
    /\ phase = "Idle" => phaseLog = <<>>
    /\ phase \in PhaseSet \cup {"Cleanup"} =>
          IF pc = "begin"
          THEN IsPrefix(Append(phaseLog, phase), ExpectedPhases)
          ELSE phaseLog # <<>> /\ phaseLog[Len(phaseLog)] = phase
    /\ phase \in {"Finish", "Done"} =>
          phaseLog = ExpectedPhases /\ error = NoError
    /\ phase = "Failed" => error # NoError
    /\ (PhaseFailed /\ pc = "end") => phase = "Failed"

\* A run with cleanup went through all eight phases and failed in the last.
C7_Witness ==
    /\ phase = "Failed"
    /\ cfg.cleanup
    /\ error.phase = "QueryHistory"
    /\ phaseLog = ExpectedPhases

----------------------------------------------------------------------------
(* C8: when a run with a pool has ended -- in success, by a failure in a   *)
(* phase, or through the early return of generate_order_items -- the pool  *)
(* has been closed exactly once, with every connection returned before;    *)
(* a closed pool belongs to an ended run, and no acquisition was ever      *)
(* refused by the pool.                                                    *)
C8_PoolClosedOnce ==
    /\ pool.closes <= 1
    /\ pool.state = "closed" =>
          /\ pool.closes = 1
          /\ pool.used = 0
          /\ ~conn
          /\ phase \in {"Done", "Failed"}
          /\ pc = "end"
    /\ (pc = "end" /\ error.kind # "connect") => pool.state = "closed"
    /\ pool.state = "none" => phase = "Idle" \/ error.kind = "connect"
    /\ ~pool.exhausted

\* A run with orders but no products: generate_order_items returned early.
C8_Witness ==
    /\ phase = "Done"
    /\ order_ids # <<>>
    /\ product_info = <<>>
    /\ store["order_items"] = <<>>
    /\ pool.state = "closed"

----------------------------------------------------------------------------
(* C9: at any moment at most one connection is checked out of the pool,    *)
(* by the one caller that holds it (never while worker threads run), so    *)
(* the pool is never exhausted, whatever its size.                         *)
C9_SingleConnection ==
    /\ pool.used <= 1
    /\ pool.used <= pool.maxconn
    /\ conn <=> pool.used = 1
    /\ ~pool.exhausted
    /\ error.kind # "pool"
    /\ (\E k \in 1..Len(tasks) : tasks[k] = "running") => pool.used = 0

\* The second batch of products holds the pool's connection.
C9_Witness ==
    /\ phase = "Products"
    /\ pc = "commit"
    /\ pool.used = 1
    /\ pool.idle = 0
    /\ Len(Committed("products")) = 1
    /\ cfg.connection_pool_size = 1

----------------------------------------------------------------------------
\* The rows of table t with value v in field f.
CountRows(t, f, v) == Cardinality({k \in 1..Len(store[t]) : store[t][k][f] = v})

\* Table t was committed in ceil(n / batch_size) transactions, each of
\* batch_size records but possibly the last.
EvenlyBatched(t) ==
    Sizes(Committed(t)) = BatchSizes(Len(generated[t]), cfg.batch_size)

(* C10, as the specification has it: in a run without failure, for every   *)
(* table the n generated records are committed in generation order in      *)
(* exactly ceil(n / batch_size) transactions, each holding batch_size      *)
(* records except possibly the last.                                       *)
C10_EveryTableEvenlyBatched ==
    phase = "Done" =>
        \A t \in Tables :
            /\ ConcatIds(Committed(t)) = generated[t]
            /\ EvenlyBatched(t)

(* C10, amended: in a run without failure every table's records are        *)
(* committed in the order they were buffered; products, orders, order      *)
(* items, audit_log and query_history in ceil(n / batch_size)             *)
(* transactions of batch_size records but possibly the last; users so      *)
(* batched for each of ADMIN, MEMBER and GUEST separately; categories with *)
(* all roots in one transaction, then the children so batched.             *)
C10_BatchingByTable ==
    phase = "Done" =>
        /\ \A t \in Tables : ConcatIds(Committed(t)) = generated[t]
        /\ \A t \in {"products", "orders", "order_items", "audit_log",
                     "query_history"} : EvenlyBatched(t)
        /\ Sizes(Committed("users")) =
              BatchSizes(CountRows("users", "type", "ADMIN"), cfg.batch_size)
              \o BatchSizes(CountRows("users", "type", "MEMBER"), cfg.batch_size)
              \o BatchSizes(CountRows("users", "type", "GUEST"), cfg.batch_size)
        /\ LET roots == CountRows("categories", "level", 0)
               children == Len(store["categories"]) - roots
           IN Sizes(Committed("categories")) =
                 (IF roots > 0 THEN <<roots>> ELSE <<>>)
                 \o BatchSizes(children, cfg.batch_size)

\* A finished run whose users and categories were not evenly batched.
C10_Witness ==
    /\ phase = "Done"
    /\ cfg.batch_size = MaxBatch
    /\ ~EvenlyBatched("users")
    /\ ~EvenlyBatched("categories")
    /\ store["orders"] # <<>>
    /\ store["products"] # <<>>

----------------------------------------------------------------------------
\* The checkouts on which the transactions of table t ran.
Checkouts(t) == {txlog[k].c : k \in {i \in 1..Len(txlog) : txlog[i].t = t}}

\* The loading functions that take their connection at entry.
HoldingPhases == PhaseSet \ {"Products"}

(* C11, as the specification has it: every batch runs on a connection      *)
(* acquired for it and released after its commit, so no two batches run    *)
(* on the same checkout of a connection.                                   *)
C11_ConnectionPerBatch ==
    \A i, j \in 1..Len(txlog) : i # j => txlog[i].c # txlog[j].c

(* C11, amended: only the products are loaded with one checkout per batch, *)
(* released after the batch's commit. Every other loading function takes   *)
(* one connection at entry, runs all its batches on it and releases it     *)
(* when it returns or raises; no checkout serves two functions (the        *)
(* checkout numbers never fall along the log of batches, and rise from a   *)
(* batch of products, or of one table, to the next batch of another).      *)
C11_ConnectionPerPhase ==
    /\ \A k \in 1..Len(txlog) - 1 :
          /\ txlog[k].c <= txlog[k + 1].c
          /\ (txlog[k].t = "products" \/ txlog[k].t # txlog[k + 1].t)
                => txlog[k].c < txlog[k + 1].c
    /\ \A t \in Tables \ {"products"} : Cardinality(Checkouts(t)) <= 1
    /\ (phase = "Products" /\ pc \in {"begin", "collect", "locked", "ins"}) =>
          pool.used = 0
    /\ (phase = "Products" /\ pc \in {"exec", "commit", "release"}) =>
          pool.used = 1
    /\ (phase \in HoldingPhases /\ pc = "begin") => pool.used = 0
    /\ (phase \in HoldingPhases /\ pc \notin {"begin", "run_except"}) =>
          pool.used = 1 /\ conn

\* Orders went in two batches on one checkout, products in two on two.
C11_Witness ==
    /\ phase = "Done"
    /\ Len(Committed("orders")) = 2
    /\ Cardinality(Checkouts("orders")) = 1
    /\ Len(Committed("products")) >= 2
    /\ Cardinality(Checkouts("products")) = Len(Committed("products"))

----------------------------------------------------------------------------
(* C12: when a chunk task of the product generation raises,                *)
(* generate_products raises that failure without having taken a            *)
(* connection: no product row is inserted or committed, no later phase is  *)
(* entered, and the run ends in failure.                                   *)
C12_ChunkFailureAborts ==
    error.kind = "chunk" =>
        /\ error.phase = "Products"
        /\ phase \in {"Products", "Failed"}
        /\ pc \in {"run_except", "end"}
        /\ phaseLog[Len(phaseLog)] = "Products"
        /\ store["products"] = <<>>
        /\ TxOf("products") = <<>>
        /\ pending = <<>>
        /\ pool.used = 0
        /\ \A u \in LaterTables("Products") : store[u] = <<>> /\ TxOf(u) = <<>>
        /\ pc = "end" => phase = "Failed"

\* The run failed on a chunk after another chunk's records were collected.
C12_Witness ==
    /\ phase = "Failed"
    /\ error.kind = "chunk"
    /\ Len(tasks) = 3
    /\ loc.all_product_data # <<>>
    /\ store["users"] # <<>>

----------------------------------------------------------------------------
\* The position of table t in the sequence s, 0 when it is not in it.
Position(s, t) ==
    IF \E k \in 1..Len(s) : s[k] = t
    THEN CHOOSE k \in 1..Len(s) : s[k] = t
    ELSE 0

\* <<a, b>>: rows of a refer to rows of b, so a is to be truncated first.
Dependencies ==
    {<<"order_items", "orders">>, <<"order_items", "products">>,
     <<"orders", "users">>, <<"audit_log", "users">>,
     <<"products", "categories">>}

\* The tables truncated so far by cleanup_data, in the order of truncation.
Truncated == IF phase = "Cleanup" /\ pc \in {"trunc", "ret"} THEN loc.cleaned
             ELSE <<>>

(* C13: cleanup runs only when enabled and before anything else: while it  *)
(* truncates, no record has been generated or inserted and no registry     *)
(* holds an identifier; the tables are truncated in reverse dependency     *)
(* order, none twice; when cleanup is disabled the run never enters        *)
(* cleanup, so nothing is truncated.                                       *)
C13_CleanupFirst ==
    /\ phase = "Cleanup" =>
          /\ cfg.cleanup
          /\ phaseLog \in {<<>>, <<"Cleanup">>}
          /\ txlog = <<>>
          /\ nextId = 0
          /\ \A t \in Tables : generated[t] = <<>> /\ store[t] = <<>>
          /\ user_ids = <<>> /\ category_ids = <<>> /\ product_ids = <<>>
          /\ product_info = <<>> /\ order_ids = <<>>
    /\ NoDup(Truncated)
    /\ \A d \in Dependencies :
          (Position(Truncated, d[1]) > 0 /\ Position(Truncated, d[2]) > 0)
             => Position(Truncated, d[1]) < Position(Truncated, d[2])
    /\ \A d \in Dependencies :
          (Position(Truncated, d[2]) > 0 /\ loc.fails = 0)
             => Position(Truncated, d[1]) > 0
    /\ ~cfg.cleanup =>
          /\ phase # "Cleanup"
          /\ \A k \in 1..Len(phaseLog) : phaseLog[k] # "Cleanup"

\* Cleanup has truncated all eight tables, users last.
C13_Witness ==
    /\ phase = "Cleanup"
    /\ pc = "ret"
    /\ Len(Truncated) = 8
    /\ Truncated[8] = "users"

----------------------------------------------------------------------------
\* cleanup_data has returned and run() is about to call generate_users; the
\* locals of cleanup_data are still those it returned with.
CleanupReturned == cfg.cleanup /\ phase = "Users" /\ pc = "begin"

\* s is t with some elements left out.
RECURSIVE IsSubSeq(_, _)
IsSubSeq(s, t) ==
    IF s = <<>> THEN TRUE
    ELSE IF t = <<>> THEN FALSE
    ELSE IF Head(s) = Head(t) THEN IsSubSeq(Tail(s), Tail(t))
    ELSE IsSubSeq(s, Tail(t))

(* C14: a failing truncate is not fatal: it is rolled back alone, the loop *)
(* goes on, so that every table of the list is either truncated (and       *)
(* stays so) or is one whose truncate failed; cleanup_data returns         *)
(* normally with no error recorded, its connection goes back to the pool,  *)
(* and run() is then able to call generate_users.                          *)
C14_TruncateFailureTolerated ==
    /\ error.phase # "Cleanup"
    /\ (phase = "Cleanup" /\ pc \in {"trunc", "ret"}) =>
          /\ Len(loc.cleaned) + loc.fails = loc.ti - 1
          /\ IsSubSeq(loc.cleaned, SubSeq(tables_to_clean, 1, loc.ti - 1))
          /\ pending = <<>>
          /\ pool.used = 1
          /\ error = NoError
          /\ pc = "ret" => loc.ti = Len(tables_to_clean) + 1
    /\ CleanupReturned =>
          /\ Len(loc.cleaned) + loc.fails = Len(tables_to_clean)
          /\ IsSubSeq(loc.cleaned, tables_to_clean)
          /\ phaseLog = <<"Cleanup">>
          /\ pending = <<>>
          /\ pool.used = 0
          /\ pool.idle >= 1
          /\ ~conn
          /\ error = NoError
          /\ ENABLED UsersBegin

\* The truncate of orders failed; the three tables before it and the four
\* after it were truncated, and the run has reached generate_users.
C14_Witness ==
    /\ CleanupReturned
    /\ loc.fails = 1
    /\ loc.cleaned = <<"query_history", "audit_log", "order_items",
                       "daily_summary", "products", "categories", "users">>

----------------------------------------------------------------------------
\* generate_categories has returned.
CategoriesReturned == phase = "Categories" /\ pc = "ret"

\* The committed categories of level l, and the children of category id.
CategoriesAt(l) == SelectSeq(store["categories"], LAMBDA row : row.level = l)

ChildrenOf(id) == SelectSeq(store["categories"], LAMBDA row : row.parent = id)

(* C15: with CONFIG's categories entry (total 1000, max_depth 3,           *)
(* children_per_parent 5) generate_categories leaves exactly 50 root       *)
(* categories and exactly 950 non-root categories on levels 1 to 3, 1000   *)
(* in all, and no parent has more than 5 children.                         *)
C15_ScenarioFillsQuota ==
    (CategoriesReturned /\ cfg = ScenarioConfig) =>
        /\ Len(CategoriesAt(0)) = 50
        /\ \A k \in 1..Len(CategoriesAt(0)) : CategoriesAt(0)[k].parent = Null
        /\ Len(CategoriesAt(1)) + Len(CategoriesAt(2)) + Len(CategoriesAt(3))
              = 950
        /\ Len(store["categories"]) = 1000
        /\ \A k \in 1..Len(store["categories"]) :
              Len(ChildrenOf(store["categories"][k].id)) <= 5

----------------------------------------------------------------------------
\* Every category generated so far: the committed ones and those still in
\* the list of generate_categories.
CategoryRows ==
    SeqRange(store["categories"])
        \cup (IF phase = "Categories" /\ pc # "begin" THEN SeqRange(buffer)
              ELSE {})

(* C16: every generated category has a level of at most max_depth; the     *)
(* categories of level 0 are exactly those with a null parent; the parent  *)
(* of a category of level L >= 1 is a category of level L - 1 and of no    *)
(* other level (identifiers name one category each).                       *)
C16_ParentOnPreviousLevel ==
    /\ \A a, b \in CategoryRows : a.id = b.id => a = b
    /\ \A row \in CategoryRows :
          /\ row.level \in 0..cfg.max_depth
          /\ row.level = 0 <=> row.parent = Null
          /\ row.level >= 1 =>
                \E par \in CategoryRows :
                    par.id = row.parent /\ par.level = row.level - 1

\* A tree of full depth: a committed category of level 3 below one of
\* level 2, with the quota not yet exhausted.
C16_Witness ==
    /\ CategoriesReturned
    /\ cfg.max_depth = 3
    /\ Len(CategoriesAt(2)) >= 2
    /\ Len(CategoriesAt(3)) >= 2
    /\ Len(store["categories"]) < cfg.categories_total

----------------------------------------------------------------------------
\* generate_users has returned.
UsersReturned == phase = "Users" /\ pc = "ret"

\* The committed users of variant v.
UsersOf(v) == SelectSeq(store["users"], LAMBDA row : row.type = v)

(* C17: for every total and all ratios that sum to 1, generate_users       *)
(* leaves exactly total users, each with one identifier of its own and     *)
(* with exactly one of the variants ADMIN, MEMBER, GUEST; the three        *)
(* per-variant counts are non-negative and add up to total.                *)
C17_VariantsPartitionUsers ==
    UsersReturned =>
        /\ Len(store["users"]) = cfg.users_total
        /\ Len(user_ids) = cfg.users_total
        /\ NoDup(Ids(store["users"]))
        /\ \A k \in 1..Len(store["users"]) :
              store["users"][k].type \in {"ADMIN", "MEMBER", "GUEST"}
        /\ Len(UsersOf("ADMIN")) + Len(UsersOf("MEMBER"))
              + Len(UsersOf("GUEST")) = cfg.users_total
        /\ \A v \in 1..3 : Len(UsersOf(UserTypes[v])) = VariantCounts(cfg)[v]

\* Seven users with ratios 0.4, 0.4, 0.2: two admins, two members and the
\* remaining three as guests.
C17_Witness ==
    /\ UsersReturned
    /\ cfg.users_total = 7
    /\ cfg.ratios = <<4, 4, 2>>
    /\ Len(UsersOf("ADMIN")) = 2
    /\ Len(UsersOf("MEMBER")) = 2
    /\ Len(UsersOf("GUEST")) = 3

----------------------------------------------------------------------------
\* round(n / 10), as Python rounds: to the nearest integer, a half to the
\* even one.
RoundTenths(n) ==
    LET q == n \div 10
        r == n % 10
    IN IF r < 5 THEN q
       ELSE IF r > 5 THEN q + 1
       ELSE IF q % 2 = 0 THEN q ELSE q + 1

\* round(total x ratio) of variant v, and by how much the number of
\* committed users of the variant exceeds it.
RoundedShare(v) == RoundTenths(cfg.users_total * cfg.ratios[v])

Excess(v) == Len(UsersOf(UserTypes[v])) - RoundedShare(v)

(* C18 as stated: the number of users of every variant, GUEST included,    *)
(* differs from round(total x ratio) by at most 1.                         *)
C18_EveryVariantWithinOne ==
    UsersReturned => \A v \in 1..3 : Excess(v) \in -1..1

(* C18, amended: the numbers of ADMIN and of MEMBER users are              *)
(* round(total x ratio) or one less; GUEST gets the remainder, which is    *)
(* never less than round(total x guest_ratio) and exceeds it by at most 2. *)
C18_GuestWithinTwo ==
    UsersReturned =>
        /\ \A v \in 1..2 : Excess(v) \in -1..0
        /\ Len(UsersOf("GUEST"))
              = cfg.users_total - Len(UsersOf("ADMIN")) - Len(UsersOf("MEMBER"))
        /\ Excess(3) \in 0..2

\* Four users with ratios 0.2, 0.2, 0.6: no admin, no member, four guests,
\* two more than round(2.4).
C18_Witness ==
    /\ UsersReturned
    /\ cfg.users_total = 4
    /\ cfg.ratios = <<2, 2, 6>>
    /\ Len(UsersOf("GUEST")) = 4
    /\ Excess(3) = 2

----------------------------------------------------------------------------
\* The tables with a configured total, and that total.
TablesWithTotal ==
    {"users", "categories", "products", "orders", "audit_log", "query_history"}

ConfiguredTotal(t) ==
    CASE t = "users" -> cfg.users_total
      [] t = "categories" -> cfg.categories_total
      [] t = "products" -> cfg.products_total
      [] t = "orders" -> cfg.orders_total
      [] t = "audit_log" -> cfg.audit_total
      [] t = "query_history" -> cfg.query_total

(* C19: when a run has ended with no failure, each of users, categories,   *)
(* products, orders, audit_log and query_history holds at most its         *)
(* configured total of rows.                                               *)
C19_WithinTotals ==
    (phase = "Done" /\ error = NoError) =>
        \A t \in TablesWithTotal : Len(store[t]) <= ConfiguredTotal(t)

\* A full run: users, products and orders hold exactly their totals, in
\* several chunks and batches, and categories fewer than theirs.
C19_Witness ==
    /\ phase = "Done"
    /\ error = NoError
    /\ Len(tasks) = 3
    /\ \A t \in {"users", "products", "orders"} :
          Len(store[t]) = ConfiguredTotal(t) /\ Len(store[t]) > 1
    /\ store["categories"] # <<>>
    /\ Len(store["categories"]) < cfg.categories_total
    /\ store["audit_log"] # <<>>
    /\ store["query_history"] # <<>>

----------------------------------------------------------------------------
\* The identifiers generated by the current run.
ThisRunIds == UNION {SeqRange(generated[t]) : t \in Tables}

(* C20: the registries live for one run: whenever run() is about to start, *)
(* the first time or again on the same object, user_ids, category_ids,     *)
(* product_ids, product_info and order_ids are empty, and every non-null   *)
(* reference of a row being inserted is an identifier generated by the     *)
(* run that inserts it, never one of an earlier run.                       *)
C20_RegistriesLiveOneRun ==
    /\ phase = "Idle" =>
          /\ user_ids = <<>>
          /\ category_ids = <<>>
          /\ product_ids = <<>>
          /\ product_info = <<>>
          /\ order_ids = <<>>
    /\ phase \in PhaseSet =>
          \A k \in 1..Len(pending) :
              \A ref \in Refs(PhaseTable(phase), pending[k]) :
                  ref[2] # Null => ref[2] \in ThisRunIds

----------------------------------------------------------------------------
\* A worker thread of generate_products is running a chunk task.
WorkerRunning == \E k \in 1..Len(tasks) : tasks[k] = "running"

(* C21, as the specification has it: every step that changes one of the    *)
(* registries user_ids, category_ids, product_ids, product_info, order_ids *)
(* is taken while the generator's lock is held.                            *)
C21_RegistriesUnderLock ==
    [][registries' # registries => lock]_vars

(* C21, amended: product_ids and product_info change only while the lock   *)
(* is held, in the merge of generate_products. user_ids, category_ids and  *)
(* order_ids are appended to by their own generate function on the main    *)
(* thread, without the lock, at a time when no worker thread is running;   *)
(* the lock is held only between the entry of the merge and its end.       *)
C21_OnlyProductsUnderLock ==
    [][/\ <<product_ids, product_info>>' # <<product_ids, product_info>>
             => lock /\ ~lock' /\ phase = "Products" /\ pc = "locked"
       /\ user_ids' # user_ids => ~lock /\ ~WorkerRunning /\ phase = "Users"
       /\ category_ids' # category_ids
             => ~lock /\ ~WorkerRunning /\ phase = "Categories"
       /\ order_ids' # order_ids => ~lock /\ ~WorkerRunning /\ phase = "Orders"
       /\ lock => phase = "Products" /\ pc = "locked"]_vars

\* The merge has just run under the lock, after users and categories were
\* registered without it.
C21_Witness ==
    /\ phase = "Products"
    /\ pc = "ins"
    /\ ~lock
    /\ Len(product_ids) = cfg.products_total
    /\ product_ids # <<>>
    /\ user_ids # <<>>
    /\ category_ids # <<>>
    /\ loc.i = 0

----------------------------------------------------------------------------
\* Every order item generated so far: the committed ones and those still in
\* the list of generate_order_items.
ItemRows ==
    SeqRange(store["order_items"])
        \cup (IF phase = "OrderItems" /\ pc # "begin" THEN SeqRange(buffer)
              ELSE {})

\* unit_price x quantity - discount_amount of an item, exactly, in
\* thousandths.
ExactTotal(row) == row.unit_price * row.quantity * 1000 - row.discount_amount

\* The unit of the last digit the decimal context keeps of n.
Ulp(n) == IF Digits(n) <= DecPrec THEN 1 ELSE Pow10(Digits(n) - DecPrec)

(* C22, as the specification has it: for every generated order item,       *)
(* line_total is exactly unit_price x quantity - discount_amount,          *)
(* line_total >= 0, and quantity lies in [min_quantity, max_quantity].     *)
C22_LineTotalExact ==
    \A row \in ItemRows :
        /\ row.line_total = ExactTotal(row)
        /\ row.line_total >= 0
        /\ row.quantity \in cfg.min_quantity..cfg.max_quantity

(* C22, amended: line_total is unit_price x quantity - discount_amount     *)
(* rounded to the precision of the decimal context: a multiple of the unit *)
(* of the last digit kept, at most half such a unit away from the exact    *)
(* difference, and equal to it when that needs no more digits. The         *)
(* discount is between 0 and unit_price x quantity, line_total >= 0, and   *)
(* quantity lies in [min_quantity, max_quantity].                          *)
C22_LineTotalRounded ==
    \A row \in ItemRows :
        /\ row.discount_amount >= 0
        /\ row.discount_amount <= row.unit_price * row.quantity * 1000
        /\ row.line_total % Ulp(ExactTotal(row)) = 0
        /\ 2 * (row.line_total - ExactTotal(row)) <= Ulp(ExactTotal(row))
        /\ 2 * (ExactTotal(row) - row.line_total) <= Ulp(ExactTotal(row))
        /\ row.line_total >= 0
        /\ row.quantity \in cfg.min_quantity..cfg.max_quantity

\* A committed item whose discounted total did not fit the precision and
\* was rounded.
C22_Witness ==
    \E k \in 1..Len(store["order_items"]) :
        LET row == store["order_items"][k]
        IN /\ row.discount_amount > 0
           /\ row.line_total # ExactTotal(row)
           /\ row.quantity > 1

----------------------------------------------------------------------------
\* The committed products with identifier id.
ProductsWithId(id) == SelectSeq(store["products"], LAMBDA row : row.id = id)

(* C23: every generated order item names a product that was inserted in    *)
(* the products phase, exactly one, and carries that product's name, sku   *)
(* and price as they were generated.                                       *)
C23_ItemSnapshotsProduct ==
    \A item \in ItemRows :
        /\ Len(ProductsWithId(item.product)) = 1
        /\ LET prod == ProductsWithId(item.product)[1]
           IN /\ item.product_name = prod.name
              /\ item.product_sku = prod.sku
              /\ item.unit_price = prod.price

\* Committed items of two products that differ in name, sku and price.
C23_Witness ==
    \E j, k \in 1..Len(store["order_items"]) :
        LET a == store["order_items"][j]
            b == store["order_items"][k]
        IN /\ a.product # b.product
           /\ a.product_name[1] # b.product_name[1]
           /\ a.product_sku # b.product_sku
           /\ a.unit_price # b.unit_price

----------------------------------------------------------------------------
(* C24: no registry is written while a worker thread runs: a step taken    *)
(* while a chunk task is running leaves all five registries as they are;   *)
(* product_ids and product_info change only in the merge, when every task  *)
(* is done; and while generate_order_items runs product_info has an entry  *)
(* for every product and does not change.                                  *)
C24_NoWriteWhileWorkersRun ==
    /\ [](phase = "OrderItems" =>
             /\ ~WorkerRunning
             /\ Len(product_info) = cfg.products_total
             /\ SeqRange(DictKeys(product_info)) = StoreIds("products"))
    /\ [][/\ WorkerRunning => registries' = registries
          /\ <<product_ids, product_info>>' # <<product_ids, product_info>>
                => phase = "Products" /\ pc = "locked" /\ AllDone
          /\ phase = "OrderItems" => product_info' = product_info]_vars

\* Two workers run chunk tasks at once, a third task has completed, and
\* the registries the workers read are filled.
C24_Witness ==
    /\ phase = "Products"
    /\ pc = "collect"
    /\ Cardinality({k \in 1..Len(tasks) : tasks[k] = "running"}) = 2
    /\ \E k \in 1..Len(tasks) : tasks[k] = "done"
    /\ category_ids # <<>>
    /\ product_ids = <<>>
    /\ loc.all_product_data # <<>>

----------------------------------------------------------------------------
\* generate_products has built its chunks.
ChunksBuilt == phase = "Products" /\ pc \in {"collect", "locked", "ins"}

\* The size the chunks are to have.
WantedChunkSize ==
    IF cfg.batch_size * 10 >= cfg.products_total \div cfg.parallel_workers
    THEN cfg.batch_size * 10
    ELSE cfg.products_total \div cfg.parallel_workers

(* C25: for every products total N, batch size and worker count the chunks *)
(* are contiguous and non-empty, start at 0 and end at N (none when N is   *)
(* 0), and each but possibly the last has max(batch_size x 10, N div       *)
(* workers) indexes, the last at most that many; once merged, every index  *)
(* of [0, N) was generated by exactly one chunk and the SKUs are pairwise  *)
(* distinct.                                                               *)
C25_ChunksPartitionRange ==
    ChunksBuilt =>
        LET ch == loc.chunks
            n == cfg.products_total
        IN /\ n = 0 <=> ch = <<>>
           /\ ch # <<>> => ch[1][1] = 0 /\ ch[Len(ch)][2] = n
           /\ \A k \in 1..Len(ch) :
                 /\ ch[k][1] < ch[k][2]
                 /\ ch[k][2] - ch[k][1] <= WantedChunkSize
                 /\ k < Len(ch) =>
                       /\ ch[k][2] = ch[k + 1][1]
                       /\ ch[k][2] - ch[k][1] = WantedChunkSize
           /\ pc = "ins" =>
                 LET rows == loc.all_product_data
                 IN /\ Len(rows) = n
                    /\ {rows[k].idx : k \in 1..Len(rows)} = 0..(n - 1)
                    /\ Cardinality({rows[k].sku : k \in 1..Len(rows)}) = n

\* Three chunks whose size comes from the division by the worker count,
\* the last one shorter, merged after completing out of order.
C25_Witness ==
    /\ ChunksBuilt
    /\ pc = "ins"
    /\ Len(loc.chunks) = 3
    /\ WantedChunkSize > cfg.batch_size * 10
    /\ loc.chunks[3][2] - loc.chunks[3][1] < WantedChunkSize
    /\ loc.all_product_data[1].idx # 0

----------------------------------------------------------------------------
(* generate_orders after generate_users: run() from construction to the    *)
(* return of generate_orders with no failure, over users totals, with      *)
(* CONFIG's ratios and no categories and no products.                      *)

OrderUsers == 12

OrderConfigs ==
    {[UnitConfig(MaxBatch, u, <<1, 3, 6>>, 0, 0, 1) EXCEPT
         !.orders_total = MaxOrders] : u \in 0..OrderUsers}

InitOrders == \E c \in OrderConfigs : Constructed(c)

NextOrders ==
    \/ RunStart
    \/ ExecuteBatch
    \/ CommitBatch
    \/ PhaseReturn /\ phase \in {"Users", "Categories", "Orders"}
    \/ UsersBegin
    \/ UsersGenerate
    \/ UsersLoopEnd
    \/ UsersNextVariant
    \/ CategoriesBegin
    \/ CategoriesRootsEnd
    \/ CategoriesChildrenInit
    \/ CategoriesWhile
    \/ ProductsBegin
    \/ ProductsLock
    \/ ProductsMerge
    \/ ProductsEnd
    \/ OrdersBegin
    \/ OrdersGenerate
    \/ OrdersLoopEnd

SpecOrders == InitOrders /\ [][NextOrders]_vars

\* The user_type of the users row with identifier uid.
UserTypeOf(uid) ==
    LET rows == store["users"]
    IN rows[CHOOSE k \in 1..Len(rows) : rows[k].id = uid].type

\* generate_orders has built member_user_ids.
OrdersDrawing == phase = "Orders" /\ pc # "begin"

(* C26: with the ratios 0.1, 0.3 and 0.6 and any users total, the users    *)
(* generate_orders draws from (the head 40% of user_ids) are all ADMIN or  *)
(* MEMBER users, and no order row has a GUEST user.                        *)
C26_NoOrderForGuest ==
    /\ OrdersDrawing =>
          \A k \in 1..Len(loc.member_user_ids) :
             UserTypeOf(loc.member_user_ids[k]) \in {"ADMIN", "MEMBER"}
    /\ \A k \in 1..Len(store["orders"]) :
          store["orders"][k].user # Null =>
             UserTypeOf(store["orders"][k].user) \in {"ADMIN", "MEMBER"}

----------------------------------------------------------------------------
\* generate_order_items: total = int(len(self.order_ids) * avg_per_order),
\* with CONFIG's avg_per_order of 1.3 (13 tenths); n is len(self.order_ids).
OrderItemsTotal(n) == (n * 13) \div 10

(* C27: the number of order-item rows generated in a run never exceeds     *)
(* the total generate_order_items computes, int(len(order_ids) x           *)
(* avg_per_order).                                                         *)
C27_ItemsWithinTotal ==
    Len(generated["order_items"]) <= OrderItemsTotal(Len(order_ids))

----------------------------------------------------------------------------
\* A generate_* function is at its return statement.
Returning ==
    \/ /\ phase \in {"Users", "Categories", "Orders", "OrderItems",
                     "AuditLog", "QueryHistory"}
       /\ pc = "ret"
    \/ /\ phase = "Products"
       /\ pc = "ins"
       /\ loc.i >= Len(loc.all_product_data)

(* C28: each of the seven generate_* functions, when it completes without  *)
(* failure, returns exactly the number of rows it committed to its table,  *)
(* whatever the size of the last partial batch.                            *)
C28_ReturnsCommitted ==
    Returning => inserted = Len(store[PhaseTable(phase)])

----------------------------------------------------------------------------
(* generate_categories alone, from construction to its return with no      *)
(* failure, over totals, depths and children counts from 0, every step     *)
(* of the function being taken once it can be.                             *)

TermCategories == 21
TermDepth == 3
TermChildren == 2

TermConfigs ==
    {UnitConfig(MaxBatch, 0, <<1, 3, 6>>, c, d, k) :
        c \in 0..TermCategories, d \in 0..TermDepth, k \in 0..TermChildren}

InitTerm == \E c \in TermConfigs : Constructed(c)

NextTerm ==
    \/ RunStart
    \/ ExecuteBatch
    \/ CommitBatch
    \/ PhaseReturn /\ phase \in {"Users", "Categories"}
    \/ UsersBegin
    \/ UsersLoopEnd
    \/ UsersNextVariant
    \/ CategoriesBegin
    \/ CategoriesRoot
    \/ CategoriesRootsEnd
    \/ CategoriesChildrenInit
    \/ CategoriesWhile
    \/ CategoriesFor
    \/ CategoriesChild

SpecTerm == InitTerm /\ [][NextTerm]_vars /\ WF_vars(NextTerm)

(* C29: for every total >= 0, max_depth >= 0 and children_per_parent >= 0  *)
(* generate_categories, once entered, returns: also when the per-parent    *)
(* child count is 0, when a level creates no category, and when there is   *)
(* no root category.                                                       *)
C29_CategoriesTerminates ==
    (phase = "Categories") ~> (phase = "Products")

\* generate_categories returns after a level on which the division gave
\* every parent no child, the total not being reached.
C29_Witness ==
    /\ CategoriesReturned
    /\ cfg.children_per_parent > 0
    /\ loc.level = cfg.max_depth + 1
    /\ loc.parents = <<>>
    /\ Len(category_ids) < cfg.categories_total
    /\ Len(category_ids) > RootCount(cfg.categories_total)

----------------------------------------------------------------------------
(* C30: generate_audit_log never fails while it builds a record, whatever  *)
(* the registries hold and whatever the audit total is, the case of        *)
(* user_ids, product_ids and order_ids all empty included: the only        *)
(* failures it can meet are the database's.                                *)
C30_AuditLogBuildsEveryRecord ==
    ~(error.phase = "AuditLog" /\ error.kind = "generate")

----------------------------------------------------------------------------
(* main() run again: a new process on the database the earlier one         *)
(* loaded, on the same day or a later one, the database taken not to       *)
(* fail; no categories, no products, no audit and no query rows.           *)

MaxDay == 1

\* datetime.now() passes midnight.
Midnight ==
    /\ today < MaxDay
    /\ today' = today + 1
    /\ UNCHANGED <<cfg, lock, phase, pc, pool, conn, registries, db, buffer,
                   inserted, loc, tasks, gen, hist, phaseLog, error>>

\* main() once the earlier process has ended: a new BulkDataGenerator
\* (empty registries, no pool, a free lock) and run(cleanup = not
\* args.no_cleanup); the tables are as the earlier process left them.
\* txlog and generated start anew: they record one run.
MainAgain ==
    /\ phase = "Done"
    /\ RunsStarted < MaxRuns
    /\ \E cl \in BOOLEAN : cfg' = [cfg EXCEPT !.cleanup = cl]
    /\ phase' = "Idle"
    /\ pc' = "begin"
    /\ pool' = [pool EXCEPT !.state = "none", !.idle = 0, !.used = 0,
                            !.maxconn = 0, !.closes = 0,
                            !.exhausted = FALSE, !.gets = 0]
    /\ user_ids' = SubSeq(user_ids, 1, 0)
    /\ category_ids' = SubSeq(category_ids, 1, 0)
    /\ product_ids' = SubSeq(product_ids, 1, 0)
    /\ product_info' = SubSeq(product_info, 1, 0)
    /\ order_ids' = SubSeq(order_ids, 1, 0)
    /\ lock' = FALSE
    /\ txlog' = SubSeq(txlog, 1, 0)
    /\ generated' = [t \in Tables |-> SubSeq(generated[t], 1, 0)]
    /\ UNCHANGED <<today, conn, db, buffer, inserted, loc, tasks, gen,
                   phaseLog, error>>

RerunConfigs ==
    {[UnitConfig(b, u, <<1, 3, 6>>, 0, 0, 1) EXCEPT
         !.orders_total = MaxOrders, !.cleanup = cl] :
       b \in {1, MaxBatch}, u \in {0, MaxUsers}, cl \in BOOLEAN}

InitRerun == \E c \in RerunConfigs : Constructed(c)

NextRerun ==
    \/ RunStart
    \/ RunFinish
    \/ ExecuteBatch
    \/ CommitBatch
    \/ PhaseReturn
    \/ CleanupBegin
    \/ Truncate
    \/ CleanupEnd
    \/ UsersBegin
    \/ UsersGenerate
    \/ UsersLoopEnd
    \/ UsersNextVariant
    \/ CategoriesBegin
    \/ CategoriesRootsEnd
    \/ CategoriesChildrenInit
    \/ CategoriesWhile
    \/ ProductsBegin
    \/ ProductsLock
    \/ ProductsMerge
    \/ ProductsEnd
    \/ OrdersBegin
    \/ OrdersGenerate
    \/ OrdersLoopEnd
    \/ OrderItemsBegin
    \/ AuditLogBegin
    \/ AuditLogLoopEnd
    \/ QueryHistoryBegin
    \/ QueryHistoryLoopEnd
    \/ MainAgain
    \/ Midnight

SpecRerun == InitRerun /\ [][NextRerun]_vars

(* C31: no run hands the database an order whose order_number is that of   *)
(* a row already in the orders table, a run without cleanup that starts    *)
(* on the day of an earlier completed run included.                        *)
C31_OrderNumbersFresh ==
    (phase = "Orders" /\ pc = "exec") =>
        \A k \in 1..Len(buffer), j \in 1..Len(store["orders"]) :
           buffer[k].order_number # store["orders"][j].order_number

====
